---- MODULE Spec2Model ----
(***************************************************************************)
(* A model of the command dispatcher of discord-akairo: the command        *)
(* registry (aliases, prefix overwrites), the prefix/alias resolver, the   *)
(* inhibitor stages, the cooldown tracker, the argument prompt and the     *)
(* per-message dispatch of CommandHandler.handle.                          *)
(*                                                                         *)
(* Text is a sequence of one-character strings, so that lower-casing,      *)
(* prefix tests, slicing and splitting are computed as the code does.      *)
(***************************************************************************)
EXTENDS Integers, Sequences, FiniteSets, TLC

(***************************************************************************)
(* Bounds of the model.                                                    *)
(***************************************************************************)
MaxAliases == 2

(***************************************************************************)
(* Text helpers (String.prototype.* as used by the handler).               *)
(***************************************************************************)
Upper == <<"A", "B", "C", "S", "X">>
LowerOf == <<"a", "b", "c", "s", "x">>

toLowerChar(ch) ==
    IF \E i \in 1..Len(Upper) : Upper[i] = ch
    THEN LowerOf[CHOOSE i \in 1..Len(Upper) : Upper[i] = ch]
    ELSE ch

toLowerCase(s) == [i \in 1..Len(s) |-> toLowerChar(s[i])]

isSpace(ch) == ch \in {" ", "\n"}

\* s.startsWith(p)
startsWith(s, p) == Len(p) <= Len(s) /\ SubSeq(s, 1, Len(p)) = p

\* s.indexOf(p): zero-based index of the first occurrence, -1 when absent
indexOf(s, p) ==
    LET hits == {i \in 0..(Len(s) - Len(p)) : SubSeq(s, i + 1, i + Len(p)) = p}
    IN IF hits = {} THEN -1
       ELSE CHOOSE i \in hits : \A j \in hits : i <= j

\* s.slice(i): a negative index counts from the end of the text
slice(s, i) ==
    LET from == IF i < 0 THEN (IF Len(s) + i < 0 THEN 0 ELSE Len(s) + i) ELSE i
    IN IF from >= Len(s) THEN <<>> ELSE SubSeq(s, from + 1, Len(s))

\* s.search(/\S/): zero-based index of the first non-blank character, or -1
searchNonSpace(s) ==
    LET hits == {i \in 1..Len(s) : ~isSpace(s[i])}
    IN IF hits = {} THEN -1
       ELSE (CHOOSE i \in hits : \A j \in hits : i <= j) - 1

\* s.split(/\s{1,}|\n{1,}/)[0]: the text before the first run of blanks
firstToken(s) ==
    LET hits == {i \in 1..Len(s) : isSpace(s[i])}
    IN IF hits = {} THEN s
       ELSE SubSeq(s, 1, (CHOOSE i \in hits : \A j \in hits : i <= j) - 1)

\* s.trim()
trim(s) ==
    LET keep == {i \in 1..Len(s) : ~isSpace(s[i])}
    IN IF keep = {} THEN <<>>
       ELSE SubSeq(s, CHOOSE i \in keep : \A j \in keep : i <= j,
                      CHOOSE i \in keep : \A j \in keep : i >= j)

\* alias.replace(/-/g, ''): the alias without its separators
RECURSIVE replaceSeparators(_)
replaceSeparators(s) ==
    IF s = <<>> THEN <<>>
    ELSE IF Head(s) = "-" THEN replaceSeparators(Tail(s))
         ELSE <<Head(s)>> \o replaceSeparators(Tail(s))

\* Collation weight of a character for a.localeCompare(b): blanks, then
\* punctuation, then digits, then letters; case is a tie-breaker only.
Collation ==
    <<" ", "\n", "-", "!", "?", "@", "<", ">", "1", "5",
      "a", "b", "c", "d", "e", "g", "i", "k", "l", "m", "n", "o", "p", "s", "t", "x">>

charWeight(ch) ==
    IF \E i \in 1..Len(Collation) : Collation[i] = toLowerChar(ch)
    THEN CHOOSE i \in 1..Len(Collation) : Collation[i] = toLowerChar(ch)
    ELSE Len(Collation) + 1

isUpper(ch) == toLowerChar(ch) /= ch

\* lexicographic comparison of two weight sequences: -1, 0 or 1
RECURSIVE compareSeq(_, _)
compareSeq(a, b) ==
    IF a = <<>> /\ b = <<>> THEN 0
    ELSE IF a = <<>> THEN -1
    ELSE IF b = <<>> THEN 1
    ELSE IF Head(a) < Head(b) THEN -1
    ELSE IF Head(a) > Head(b) THEN 1
    ELSE compareSeq(Tail(a), Tail(b))

\* a.localeCompare(b)
localeCompare(a, b) ==
    LET primary == compareSeq([i \in 1..Len(a) |-> charWeight(a[i])],
                              [i \in 1..Len(b) |-> charWeight(b[i])])
    IN IF primary /= 0 THEN primary
       ELSE compareSeq([i \in 1..Len(a) |-> IF isUpper(a[i]) THEN 1 ELSE 0],
                       [i \in 1..Len(b) |-> IF isUpper(b[i]) THEN 1 ELSE 0])

(***************************************************************************)
(* The state of a CommandHandler.                                          *)
(***************************************************************************)
VARIABLES
    modules,           \* Collection id -> Command of the loaded commands
    aliases,           \* Collection alias -> command id
    prefixes,          \* Collection prefix -> set of command ids, in order
    aliasReplacement,  \* whether an alias replacement rule is configured
    regResult,         \* outcome of the last register/deregister call
    handlerPrefix,     \* CommandHandler#prefix, the global prefix(es)
    allowMention,      \* CommandHandler#allowMention
    parsed,            \* the text last given to parseCommand and its result
    defaultPrompt,     \* CommandHandler#defaultPrompt
    errorListener,     \* whether a listener is registered for the error event
    msgs,              \* the inbound messages, in order of arrival
    tasks,             \* the runs of handle and of the fan-out branches
    prompts,           \* Collection channel id -> set of user ids in a prompt
    cooldowns,         \* Collection user id -> { command id -> entry }
    timers,            \* the pending cooldown timers
    now                \* the clock

regVars == <<modules, aliases, prefixes, aliasReplacement, regResult>>
cfgVars == <<handlerPrefix, allowMention>>
runCfgVars == <<defaultPrompt, errorListener>>
runVars == <<msgs, tasks, prompts, cooldowns, timers, now>>

vars == <<modules, aliases, prefixes, aliasReplacement, regResult,
          handlerPrefix, allowMention, parsed,
          defaultPrompt, errorListener, msgs, tasks, prompts, cooldowns, timers, now>>

(***************************************************************************)
(* Values of the registry.                                                 *)
(***************************************************************************)
CmdIds == {"ban", "ping"}

AliasPool == {<<"x">>, <<"X">>, <<"a", "-", "b">>, <<"a", "b">>}
AliasLists == UNION {[1..n -> AliasPool] : n \in 1..MaxAliases}

\* Command#prefix: none (null), one string, a list of strings or a function
NoPrefix == [kind |-> "none", vals |-> <<>>]

\* A key of the prefix collection: a string, or the command's own bound function
strKey(s) == [fn |-> FALSE, s |-> s, of |-> ""]
fnKey(command) == [fn |-> TRUE, s |-> command.prefix.vals[1], of |-> command.id]

\* The keys under which register and deregister file a command
prefixKeys(command) ==
    CASE command.prefix.kind = "none" -> <<>>
      [] command.prefix.kind = "fn"   -> <<fnKey(command)>>
      [] OTHER -> [i \in 1..Len(command.prefix.vals) |-> strKey(command.prefix.vals[i])]

\* Infinity, as the default of the limit options
Infinity == 1000000

NoFault == "ok"
ALIAS_CONFLICT == "ALIAS_CONFLICT"
TypeError == "TypeError"

put(map, k, v) == [x \in (DOMAIN map) \cup {k} |-> IF x = k THEN v ELSE map[x]]
delete(map, k) == [x \in (DOMAIN map) \ {k} |-> map[x]]
EmptyMap == [x \in {} |-> 0]

(***************************************************************************)
(* CommandHandler.register                                                 *)
(***************************************************************************)
\* super.register(command, filepath): the command enters the module table
AkairoHandlerRegister(mods, command) == put(mods, command.id, command)

\* The alias loop of register, from the i-th alias on; a conflict throws and
\* leaves the table as the loop has written it so far.
RECURSIVE registerAliases(_, _, _, _)
registerAliases(command, i, table, replacing) ==
    IF i > Len(command.aliases)
    THEN [aliases |-> table, fault |-> NoFault, conflict |-> ""]
    ELSE
      LET alias == toLowerCase(command.aliases[i])
      IN IF alias \in DOMAIN table
         THEN [aliases |-> table, fault |-> ALIAS_CONFLICT, conflict |-> table[alias]]
         ELSE
           LET t1 == put(table, alias, command.id)
               replacement == replaceSeparators(alias)
           IN IF replacing /\ replacement /= alias
              THEN IF replacement \in DOMAIN t1
                   THEN [aliases |-> t1, fault |-> ALIAS_CONFLICT,
                         conflict |-> t1[replacement]]
                   ELSE registerAliases(command, i + 1,
                                        put(t1, replacement, command.id), replacing)
              ELSE registerAliases(command, i + 1, t1, replacing)

\* A comparator that puts the shorter static prefix first
comparePrefixKeysShortFirst(aKey, bKey) ==
    IF ~aKey.fn /\ ~bKey.fn /\ aKey.s = <<>> /\ bKey.s = <<>> THEN 0
    ELSE IF ~aKey.fn /\ aKey.s = <<>> THEN 1
    ELSE IF ~bKey.fn /\ bKey.s = <<>> THEN -1
    ELSE IF aKey.fn /\ bKey.fn THEN 0
    ELSE IF aKey.fn THEN 1
    ELSE IF bKey.fn THEN -1
    ELSE IF Len(aKey.s) = Len(bKey.s)
         THEN localeCompare(aKey.s, bKey.s)
         ELSE Len(aKey.s) - Len(bKey.s)

\* The comparator of the prefix collection: < 0 when a goes before b
comparePrefixKeys(aKey, bKey) ==
    IF ~aKey.fn /\ ~bKey.fn /\ aKey.s = <<>> /\ bKey.s = <<>> THEN 0
    ELSE IF ~aKey.fn /\ aKey.s = <<>> THEN 1
    ELSE IF ~bKey.fn /\ bKey.s = <<>> THEN -1
    ELSE IF aKey.fn /\ bKey.fn THEN 0
    ELSE IF aKey.fn THEN 1
    ELSE IF bKey.fn THEN -1
    ELSE IF Len(aKey.s) = Len(bKey.s)
         THEN localeCompare(aKey.s, bKey.s)
         ELSE Len(bKey.s) - Len(aKey.s)

\* Insert an entry into a sorted list, after the entries it does not precede
RECURSIVE insertSorted(_, _)
insertSorted(sorted, e) ==
    IF sorted = <<>> THEN <<e>>
    ELSE IF comparePrefixKeys(e.key, Head(sorted).key) < 0
         THEN <<e>> \o sorted
         ELSE <<Head(sorted)>> \o insertSorted(Tail(sorted), e)

\* Collection#sort with the comparator above (a stable sort)
RECURSIVE sortPrefixes(_)
sortPrefixes(entries) ==
    IF entries = <<>> THEN <<>>
    ELSE insertSorted(sortPrefixes(SubSeq(entries, 1, Len(entries) - 1)),
                      entries[Len(entries)])

hasKey(entries, key) == \E i \in 1..Len(entries) : entries[i].key = key
getIds(entries, key) == entries[CHOOSE i \in 1..Len(entries) : entries[i].key = key].ids

\* The prefix loop of register, from the i-th key on; r.newEntry records
\* whether a key was introduced
RECURSIVE registerPrefixes(_, _, _, _)
registerPrefixes(keys, i, id, r) ==
    IF i > Len(keys) THEN r
    ELSE IF hasKey(r.entries, keys[i])
         THEN registerPrefixes(keys, i + 1, id,
                [r EXCEPT !.entries = [j \in 1..Len(r.entries) |->
                    IF r.entries[j].key = keys[i]
                    THEN [r.entries[j] EXCEPT !.ids = @ \cup {id}]
                    ELSE r.entries[j]]])
         ELSE registerPrefixes(keys, i + 1, id,
                [entries |-> Append(r.entries, [key |-> keys[i], ids |-> {id}]),
                 newEntry |-> TRUE])

\* register(command) on a registry reg = [modules, aliases, prefixes]
register(reg, command, replacing) ==
    LET mods == AkairoHandlerRegister(reg.modules, command)
        al == registerAliases(command, 1, reg.aliases, replacing)
        pr == registerPrefixes(prefixKeys(command), 1, command.id,
                               [entries |-> reg.prefixes, newEntry |-> FALSE])
    IN IF al.fault /= NoFault
       THEN [modules |-> mods, aliases |-> al.aliases,
             prefixes |-> reg.prefixes, fault |-> al.fault, conflict |-> al.conflict]
       ELSE [modules |-> mods, aliases |-> al.aliases,
             prefixes |-> IF pr.newEntry THEN sortPrefixes(pr.entries) ELSE pr.entries,
             fault |-> NoFault, conflict |-> ""]

(***************************************************************************)
(* CommandHandler.deregister                                               *)
(***************************************************************************)
\* The alias loop of deregister
RECURSIVE deregisterAliases(_, _, _, _)
deregisterAliases(command, i, table, replacing) ==
    IF i > Len(command.aliases) THEN table
    ELSE
      LET alias == toLowerCase(command.aliases[i])
          t1 == delete(table, alias)
          replacement == replaceSeparators(alias)
      IN deregisterAliases(command, i + 1,
            IF replacing /\ replacement /= alias THEN delete(t1, replacement) ELSE t1,
            replacing)

removeAt(entries, key) ==
    SelectSeq(entries, LAMBDA e : e.key /= key)

RECURSIVE deregisterPrefixesDropEntry(_, _, _)
deregisterPrefixesDropEntry(keys, i, entries) ==
    IF i > Len(keys) THEN [entries |-> entries, fault |-> NoFault]
    ELSE IF ~hasKey(entries, keys[i])
         THEN [entries |-> entries, fault |-> TypeError]
         ELSE deregisterPrefixesDropEntry(keys, i + 1, removeAt(entries, keys[i]))

\* The prefix loop of deregister: an entry holding one id is dropped, any
\* other entry has the prefix itself (not the id) deleted from its id set;
\* a key without an entry makes the size test throw.
RECURSIVE deregisterPrefixes(_, _, _)
deregisterPrefixes(keys, i, entries) ==
    IF i > Len(keys) THEN [entries |-> entries, fault |-> NoFault]
    ELSE IF ~hasKey(entries, keys[i])
         THEN [entries |-> entries, fault |-> TypeError]
         ELSE IF Cardinality(getIds(entries, keys[i])) = 1
              THEN deregisterPrefixes(keys, i + 1, removeAt(entries, keys[i]))
              ELSE deregisterPrefixes(keys, i + 1,
                     [j \in 1..Len(entries) |->
                        IF entries[j].key = keys[i]
                        THEN [entries[j] EXCEPT !.ids = @ \ {keys[i].s}]
                        ELSE entries[j]])

\* super.deregister(command): the command leaves the module table
AkairoHandlerDeregister(mods, command) == delete(mods, command.id)

deregister(reg, command, replacing) ==
    LET al == deregisterAliases(command, 1, reg.aliases, replacing)
        pr == deregisterPrefixes(prefixKeys(command), 1, reg.prefixes)
    IN IF pr.fault /= NoFault
       THEN [modules |-> reg.modules, aliases |-> al,
             prefixes |-> pr.entries, fault |-> pr.fault]
       ELSE [modules |-> AkairoHandlerDeregister(reg.modules, command),
             aliases |-> al, prefixes |-> pr.entries, fault |-> NoFault]

\* The absence of a command (undefined)
NoCommand == [aliases |-> <<>>, prefix |-> NoPrefix, id |-> ""]

\* findCommand(name)
findCommand(mods, als, name) ==
    IF toLowerCase(name) \in DOMAIN als /\ als[toLowerCase(name)] \in DOMAIN mods
    THEN mods[als[toLowerCase(name)]]
    ELSE NoCommand


(***************************************************************************)
(* CommandHandler.parseCommand and parseCommandWithOverwrittenPrefixes      *)
(***************************************************************************)
Undefined == <<"undefined">>

\* The value of `parsed`: null, or { command?, prefix, alias, content, afterPrefix }
NullParse ==
    [isNull |-> TRUE, command |-> NoCommand, prefix |-> <<>>, alias |-> <<>>,
     content |-> <<>>, afterPrefix |-> <<>>]

\* The comparator both parsers sort a list of prefixes with
comparePrefixStrings(a, b) ==
    IF a = <<>> /\ b = <<>> THEN 0
    ELSE IF a = <<>> THEN 1
    ELSE IF Len(a) = Len(b) THEN localeCompare(a, b)
    ELSE Len(b) - Len(a)

RECURSIVE insertPrefixString(_, _)
insertPrefixString(sorted, p) ==
    IF sorted = <<>> THEN <<p>>
    ELSE IF comparePrefixStrings(p, Head(sorted)) < 0
         THEN <<p>> \o sorted
         ELSE <<Head(sorted)>> \o insertPrefixString(Tail(sorted), p)

\* prefix.sort(...) on a list of prefix strings
RECURSIVE sortPrefixStrings(_)
sortPrefixStrings(list) ==
    IF list = <<>> THEN <<>>
    ELSE insertPrefixString(sortPrefixStrings(SubSeq(list, 1, Len(list) - 1)),
                            list[Len(list)])

\* prefix.find(p => content.startsWith(p.toLowerCase())) on the lower-cased text
findPrefix(list, lowered) ==
    LET hits == {i \in 1..Len(list) : startsWith(lowered, toLowerCase(list[i]))}
    IN IF hits = {} THEN Undefined
       ELSE list[CHOOSE i \in hits : \A j \in hits : i <= j]

\* The two mention forms of the client user
clientUserId == <<"1">>
mentionPrefixes == << <<"<", "@">> \o clientUserId \o <<">">>,
                      <<"<", "@", "!">> \o clientUserId \o <<">">> >>

\* The list (or single string) parseCommand matches the message against
globalPrefixList(gprefix, mention) ==
    IF mention THEN mentionPrefixes \o gprefix.vals ELSE gprefix.vals

globalIsArray(gprefix, mention) == mention \/ gprefix.kind = "arr"

\* The tail both parsers share once a prefix `start` has matched
parseAfter(mods, als, text, start) ==
    LET startIndex == indexOf(toLowerCase(text), start) + Len(start)
        argsIndex == searchNonSpace(slice(text, startIndex)) + Len(start)
        name == firstToken(slice(text, argsIndex))
    IN [name |-> name,
        command |-> findCommand(mods, als, name),
        content |-> trim(slice(text, argsIndex + Len(name) + 1)),
        afterPrefix |-> trim(slice(text, Len(start)))]

\* The loop of parseCommandWithOverwrittenPrefixes over the prefix collection
RECURSIVE findOverwrittenPrefix(_, _, _)
findOverwrittenPrefix(entries, i, text) ==
    IF i > Len(entries) THEN [start |-> Undefined, commands |-> {}]
    ELSE IF startsWith(toLowerCase(text), toLowerCase(entries[i].key.s))
         THEN [start |-> entries[i].key.s, commands |-> entries[i].ids]
         ELSE findOverwrittenPrefix(entries, i + 1, text)

parseCommandWithOverwrittenPrefixes(reg, text) ==
    IF Len(reg.prefixes) = 0 THEN NullParse
    ELSE
      LET found == findOverwrittenPrefix(reg.prefixes, 1, text)
      IN IF found.start = Undefined THEN NullParse
         ELSE
           LET r == parseAfter(reg.modules, reg.aliases, text, found.start)
           IN [isNull |-> FALSE,
               command |-> IF r.command.id = "" \/ r.command.id \notin found.commands
                           THEN NoCommand ELSE r.command,
               prefix |-> found.start, alias |-> r.name,
               content |-> r.content, afterPrefix |-> r.afterPrefix]

parseCommand(reg, gprefix, mention, text) ==
    LET list == globalPrefixList(gprefix, mention)
        start == IF globalIsArray(gprefix, mention)
                 THEN findPrefix(sortPrefixStrings(list), toLowerCase(text))
                 ELSE IF startsWith(toLowerCase(text), toLowerCase(list[1]))
                      THEN list[1] ELSE Undefined
    IN IF start = Undefined THEN parseCommandWithOverwrittenPrefixes(reg, text)
       ELSE
         LET r == parseAfter(reg.modules, reg.aliases, text, start)
             own == [isNull |-> FALSE, command |-> NoCommand, prefix |-> start,
                     alias |-> r.name, content |-> r.content,
                     afterPrefix |-> r.afterPrefix]
         IN IF r.command.id = "" \/ r.command.prefix.kind /= "none"
            THEN LET over == parseCommandWithOverwrittenPrefixes(reg, text)
                 IN IF over.isNull THEN own ELSE over
            ELSE [own EXCEPT !.command = r.command]

registry == [modules |-> modules, aliases |-> aliases, prefixes |-> prefixes]

(***************************************************************************)
(* The registry as a state machine: commands are registered and            *)
(* deregistered in any order.                                              *)
(***************************************************************************)
NotParsed == [text |-> Undefined, result |-> NullParse]

\* The handler before any message: the constructor's defaults
HandlerDefaultPrompt ==
    [start |-> FALSE, retry |-> FALSE, timeout |-> FALSE, ended |-> FALSE,
     cancel |-> FALSE, retries |-> 1,
     cancelWord |-> <<"c", "a", "n", "c", "e", "l">>,
     stopWord |-> <<"s", "t", "o", "p">>,
     optional |-> FALSE, infinite |-> FALSE, limit |-> Infinity, breakout |-> TRUE]

IdleRun ==
    /\ defaultPrompt = HandlerDefaultPrompt
    /\ errorListener = TRUE
    /\ msgs = <<>>
    /\ tasks = <<>>
    /\ prompts = EmptyMap
    /\ cooldowns = EmptyMap
    /\ timers = {}
    /\ now = 0

InitReg ==
    /\ modules = EmptyMap
    /\ aliases = EmptyMap
    /\ prefixes = <<>>
    /\ aliasReplacement \in BOOLEAN
    /\ regResult = [fault |-> NoFault, id |-> "", conflict |-> ""]
    /\ handlerPrefix = [kind |-> "str", vals |-> <<<<"!">>>>]
    /\ allowMention = TRUE
    /\ parsed = NotParsed
    /\ IdleRun

Register(command) ==
    /\ command.id \notin DOMAIN modules
    /\ LET r == register(registry, command, aliasReplacement)
       IN /\ modules' = r.modules
          /\ aliases' = r.aliases
          /\ prefixes' = r.prefixes
          /\ regResult' = [fault |-> r.fault,
                            id |-> IF r.fault = NoFault THEN "" ELSE command.id,
                            conflict |-> r.conflict]
    /\ UNCHANGED <<aliasReplacement, cfgVars, parsed, runCfgVars, runVars>>

Deregister(id) ==
    /\ id \in DOMAIN modules
    /\ LET r == deregister(registry, modules[id], aliasReplacement)
       IN /\ modules' = r.modules
          /\ aliases' = r.aliases
          /\ prefixes' = r.prefixes
          /\ regResult' = [fault |-> r.fault,
                            id |-> IF r.fault = NoFault THEN "" ELSE id,
                            conflict |-> ""]
    /\ UNCHANGED <<aliasReplacement, cfgVars, parsed, runCfgVars, runVars>>

\* In the alias specification "ban" declares a prefix overwrite and the
\* other commands declare none.
aliasSpecPrefix(id) ==
    IF id = "ban" THEN [kind |-> "str", vals |-> <<<<"!", "!">>>>] ELSE NoPrefix

RegisterAny ==
    \E id \in CmdIds, als \in AliasLists :
        Register([aliases |-> als, prefix |-> aliasSpecPrefix(id), id |-> id])

DeregisterAny == \E id \in CmdIds : Deregister(id)

NextReg == RegisterAny \/ DeregisterAny

SpecReg == InitReg /\ [][NextReg]_vars

(***************************************************************************)
(* C1: register(B) colliding with an alias of A fails with an alias        *)
(* conflict and leaves the module table, the alias table and the prefix    *)
(* index exactly as they were before the call.                             *)
(***************************************************************************)
C1_ConflictLeavesRegistryUntouched ==
    [][(/\ regResult'.fault = ALIAS_CONFLICT
        /\ regResult'.conflict /= regResult'.id) =>
          /\ modules' = modules
          /\ aliases' = aliases
          /\ prefixes' = prefixes]_vars

(***************************************************************************)
(* The resolver as a state machine: commands are registered and            *)
(* deregistered, and texts are parsed against the registry.                *)
(***************************************************************************)
str(s) == [kind |-> "str", vals |-> <<s>>]

BanAlias == <<"b", "a", "n">>
AdminPrefix == <<"!", "!", "a", "d", "m", "i", "n", " ">>

\* The commands of the resolver specification
ParseCommands ==
    {[aliases |-> <<BanAlias>>, prefix |-> p, id |-> "ban"] :
        p \in {NoPrefix, str(AdminPrefix), str(<<"!", "!">>), str(<<"!", "x", " ">>),
               [kind |-> "fn", vals |-> <<<<"?">>>>]}}
    \cup
    {[aliases |-> <<<<"x">>>>, prefix |-> p, id |-> "ping"] :
        p \in {NoPrefix, str(AdminPrefix), str(<<"!", "!">>)}}

GlobalPrefixes ==
    {str(<<"!">>), str(<<"!", "!">>),
     [kind |-> "arr", vals |-> <<<<"!">>, <<"?", "?">>>>]}

\* The texts parsed: a leading part, blanks, a name and a remainder
ParseTexts ==
    {lead \o blank \o name \o rest :
        lead \in {<<>>, <<"!">>, <<"!", "!">>, AdminPrefix, <<"!", "x", " ">>,
                  <<"?">>, <<"?", "?">>, <<"<", "@", "1", ">">>},
        blank \in {<<>>, <<" ">>},
        name \in {<<>>, BanAlias, <<"B", "a", "n">>, <<"x">>},
        rest \in {<<>>, <<" ", "5">>}}

InitParse ==
    /\ modules = EmptyMap
    /\ aliases = EmptyMap
    /\ prefixes = <<>>
    /\ aliasReplacement = FALSE
    /\ regResult = [fault |-> NoFault, id |-> "", conflict |-> ""]
    /\ handlerPrefix \in GlobalPrefixes
    /\ allowMention \in BOOLEAN
    /\ parsed = NotParsed
    /\ IdleRun

\* The registry is set up, then one text is parsed against it
RegisterForParse ==
    /\ parsed = NotParsed
    /\ \E command \in ParseCommands : Register(command)

DeregisterForParse ==
    /\ parsed = NotParsed
    /\ \E id \in CmdIds : Deregister(id)

Parse(text) ==
    /\ parsed = NotParsed
    /\ parsed' = [text |-> text,
                  result |-> parseCommand(registry, handlerPrefix, allowMention, text)]
    /\ UNCHANGED <<regVars, cfgVars, runCfgVars, runVars>>

ParseAny == \E text \in ParseTexts : Parse(text)

NextParse == RegisterForParse \/ DeregisterForParse \/ ParseAny

SpecParse == InitParse /\ [][NextParse]_vars

\* The strings a command's prefix overwrite stands for
overridePrefixes(command) == {command.prefix.vals[i] : i \in 1..Len(command.prefix.vals)}

globalPrefixes ==
    LET list == globalPrefixList(handlerPrefix, allowMention)
    IN {list[i] : i \in 1..Len(list)}

\* the first blank-delimited token of s after its leading blanks
tokenAfterBlanks(s) ==
    IF searchNonSpace(s) = -1 THEN <<>> ELSE firstToken(slice(s, searchNonSpace(s)))

\* A command with a prefix overwrite resolves only under one of its own
\* prefixes, a command without one only under a global prefix.
MatchedPrefixIsOwn ==
    parsed.result.command.id /= "" =>
        LET command == parsed.result.command
        IN IF command.prefix.kind /= "none"
           THEN parsed.result.prefix \in overridePrefixes(command)
           ELSE parsed.result.prefix \in globalPrefixes

\* A text that starts with a command's prefix overwrite followed by an alias
\* of that command, and also with a shorter global prefix, resolves to it.
LongerOverrideWins ==
    parsed.text /= Undefined =>
        \A id \in DOMAIN modules :
            \A o \in overridePrefixes(modules[id]) :
                (/\ startsWith(toLowerCase(parsed.text), toLowerCase(o))
                 /\ \E g \in globalPrefixes :
                        /\ startsWith(toLowerCase(parsed.text), toLowerCase(g))
                        /\ Len(g) < Len(o)
                 /\ findCommand(modules, aliases,
                        tokenAfterBlanks(slice(parsed.text, Len(o)))) = modules[id])
                => parsed.result.command = modules[id]

\* The instance: global prefix "!", command ban with prefix "!!admin "
AdminInstance ==
    (/\ handlerPrefix = str(<<"!">>)
     /\ "ban" \in DOMAIN modules
     /\ modules["ban"].prefix = str(AdminPrefix)
     /\ BanAlias \in DOMAIN aliases
     /\ aliases[BanAlias] = "ban") =>
        /\ parsed.text = AdminPrefix \o BanAlias \o <<" ", "5">>
              => parsed.result.command = modules["ban"]
        /\ parsed.text = <<"!">> \o BanAlias \o <<" ", "5">>
              => parsed.result.command.id = ""

(***************************************************************************)
(* C10: a command with its own prefix overwrite resolves only under one of *)
(* its overwrite prefixes, a command without an overwrite never resolves   *)
(* through another command's overwrite prefix, "!!admin ban 5" resolves to *)
(* ban and "!ban 5" to no command, and the longer overwrite prefix wins    *)
(* over a shorter global prefix.                                           *)
(***************************************************************************)
C10_PrefixOverrideResolution ==
    /\ MatchedPrefixIsOwn
    /\ LongerOverrideWins
    /\ AdminInstance

(***************************************************************************)
(* The message pipeline: CommandHandler#handle and what it calls           *)
(***************************************************************************)
\* An emitted handler event, or a prompt text sent to the channel
E(e, c, r) == [e |-> e, c |-> c, r |-> r]

MESSAGE_BLOCKED == "messageBlocked"
MESSAGE_INVALID == "messageInvalid"
IN_PROMPT == "messageInPrompt"
COMMAND_BLOCKED == "commandBlocked"
COMMAND_STARTED == "commandStarted"
COMMAND_FINISHED == "commandFinished"
COMMAND_CANCELLED == "commandCancelled"
MISSING_PERMISSIONS == "missingPermissions"
COOLDOWN == "cooldown"
COMMAND_DISABLED == "commandDisabled"
ERROR == "error"
SEND == "send"

\* What a user-supplied callback (inhibitor, permission check, hook, caster,
\* command body) can do
Outcomes == {"pass", "block", "fault"}

newTask(msg, kind, parent, pc, cmd) ==
    [msg |-> msg, kind |-> kind, parent |-> parent, pc |-> pc, cmd |-> cmd,
     content |-> <<>>, rc |-> 0, add |-> 0, values |-> <<>>, input |-> 0,
     parsedValue |-> "", diff |-> 0, err |-> "", ev |-> <<>>, result |-> ""]

\* The task with the fault that one of its callbacks raised
throw(th, what) == [th EXCEPT !.err = what]

emit(th, e, c, r) == [th EXCEPT !.ev = Append(@, E(e, c, r))]

\* CommandHandler#emitError: the event when someone listens, else a rethrow
emitErrorSwallowed(th, c, listener) ==
    IF listener
    THEN [emit(th, ERROR, c, "") EXCEPT !.result = "null", !.pc = "done"]
    ELSE [th EXCEPT !.result = "null", !.pc = "done"]

emitError(th, c, listener) ==
    IF listener
    THEN [emit(th, ERROR, c, "") EXCEPT !.result = "null", !.pc = "done"]
    ELSE [th EXCEPT !.result = "rejected", !.pc = "done"]

\* The end of handle, given what the command path returned
handleReturn(th, ran, listener) ==
    CASE ran = "false" ->
            [emit(th, MESSAGE_INVALID, "", "") EXCEPT !.result = "false", !.pc = "done"]
      [] ran = "rejected" -> emitError(th, "", listener)
      [] OTHER -> [th EXCEPT !.result = ran, !.pc = "done"]

\* A run of handle that settles with value: a run started by
\* handleDirectCommand for a breakout hands its value to the run that started it
RECURSIVE returned(_, _, _, _)
returned(ts, t, value, listener) ==
    LET closed == [ts EXCEPT ![t] = [@ EXCEPT !.result = value, !.pc = "done",
                                              !.content = <<>>, !.rc = 0, !.add = 0,
                                              !.values = <<>>, !.input = 0]]
        p == ts[t].parent
        up == handleReturn(closed[p], value, listener)
    IN IF ts[t].kind = "retry"
       THEN returned([closed EXCEPT ![p] = up], p, up.result, listener)
       ELSE closed

\* handleDirectCommand returned ran to handle
ranTo(ts, t, th, ran, listener) ==
    LET last == handleReturn(th, ran, listener)
    IN returned([ts EXCEPT ![t] = last], t, last.result, listener)

\* A fault caught by the try of handleDirectCommand or of a fan-out branch
\* (c is the command) or by the try of handle (c is "")
fail(ts, t, th, c, listener) ==
    LET caught == emitError(th, c, listener)
    IN returned([ts EXCEPT ![t] = caught], t, caught.result, listener)

hasPrompt(ps, channel, user) ==
    channel \in DOMAIN ps /\ user \in ps[channel]

addPrompt(ps, channel, user) ==
    put(ps, channel, (IF channel \in DOMAIN ps THEN ps[channel] ELSE {}) \cup {user})

removePromptKeepsUser(ps, channel, user) == ps

removePromptWrongUser(ps, channel, user) ==
    IF channel \notin DOMAIN ps THEN ps
    ELSE LET users == ps[channel] \ {channel}
             less == put(ps, channel, users)
         IN IF users = {} THEN delete(less, user) ELSE less

removePrompt(ps, channel, user) ==
    IF channel \notin DOMAIN ps THEN ps
    ELSE LET users == ps[channel] \ {user}
             less == put(ps, channel, users)
         IN IF users = {} THEN delete(less, user) ELSE less

\* The constructor's defaults of CommandHandler and of Command
blockClient == TRUE
blockBots == TRUE
defaultCooldown == 0
ownerID == "own"
ignoreCooldown == ownerID
selfId == "1"
nullCooldown == -1

NullEntry == [isNull |-> TRUE, end |-> 0, uses |-> 0]

\* CommandHandler#runCooldowns at the time clock
runCooldownsOneMore(cds, tms, m, command, clock) ==
    LET ignorer == IF command.ignoreCooldown /= "" THEN command.ignoreCooldown
                   ELSE ignoreCooldown
        time == IF command.cooldown /= nullCooldown THEN command.cooldown
                ELSE defaultCooldown
        id == m.author
        byUser == IF id \in DOMAIN cds THEN cds[id] ELSE EmptyMap
        fresh == command.id \notin DOMAIN byUser \/ byUser[command.id].isNull
        entry == IF fresh
                 THEN [isNull |-> FALSE, end |-> m.createdTimestamp + time, uses |-> 0]
                 ELSE byUser[command.id]
        armed == IF fresh
                 THEN tms \cup {[user |-> id, cmd |-> command.id, at |-> clock + time]}
                 ELSE tms
        blocked == entry.uses > command.ratelimit
        used == IF blocked THEN entry ELSE [entry EXCEPT !.uses = @ + 1]
    IN IF m.author = ignorer \/ time = 0
       THEN [cooldowns |-> cds, timers |-> tms, blocked |-> FALSE, diff |-> 0]
       ELSE [cooldowns |-> put(cds, id, put(byUser, command.id, used)),
             timers |-> armed, blocked |-> blocked,
             diff |-> entry.end - m.createdTimestamp]

\* runCooldowns with a window that every use moves to the end of its message
runCooldownsSlidingEnd(cds, tms, m, command, clock) ==
    LET ignorer == IF command.ignoreCooldown /= "" THEN command.ignoreCooldown
                   ELSE ignoreCooldown
        time == IF command.cooldown /= nullCooldown THEN command.cooldown
                ELSE defaultCooldown
        id == m.author
        byUser == IF id \in DOMAIN cds THEN cds[id] ELSE EmptyMap
        fresh == command.id \notin DOMAIN byUser \/ byUser[command.id].isNull
        entry == IF fresh
                 THEN [isNull |-> FALSE, end |-> m.createdTimestamp + time, uses |-> 0]
                 ELSE [byUser[command.id] EXCEPT !.end = m.createdTimestamp + time]
        armed == IF fresh
                 THEN tms \cup {[user |-> id, cmd |-> command.id, at |-> clock + time]}
                 ELSE tms
        blocked == entry.uses >= command.ratelimit
        used == IF blocked THEN entry ELSE [entry EXCEPT !.uses = @ + 1]
    IN IF m.author = ignorer \/ time = 0
       THEN [cooldowns |-> cds, timers |-> tms, blocked |-> FALSE, diff |-> 0]
       ELSE [cooldowns |-> put(cds, id, put(byUser, command.id, used)),
             timers |-> armed, blocked |-> blocked,
             diff |-> entry.end - m.createdTimestamp]

runCooldowns(cds, tms, m, command, clock) ==
    LET ignorer == IF command.ignoreCooldown /= "" THEN command.ignoreCooldown
                   ELSE ignoreCooldown
        time == IF command.cooldown /= nullCooldown THEN command.cooldown
                ELSE defaultCooldown
        id == m.author
        byUser == IF id \in DOMAIN cds THEN cds[id] ELSE EmptyMap
        fresh == command.id \notin DOMAIN byUser \/ byUser[command.id].isNull
        entry == IF fresh
                 THEN [isNull |-> FALSE, end |-> m.createdTimestamp + time, uses |-> 0]
                 ELSE byUser[command.id]
        armed == IF fresh
                 THEN tms \cup {[user |-> id, cmd |-> command.id, at |-> clock + time]}
                 ELSE tms
        blocked == entry.uses >= command.ratelimit
        used == IF blocked THEN entry ELSE [entry EXCEPT !.uses = @ + 1]
    IN IF m.author = ignorer \/ time = 0
       THEN [cooldowns |-> cds, timers |-> tms, blocked |-> FALSE, diff |-> 0]
       ELSE [cooldowns |-> put(cds, id, put(byUser, command.id, used)),
             timers |-> armed, blocked |-> blocked,
             diff |-> entry.end - m.createdTimestamp]

\* The callback given to setTimeout by runCooldowns
cooldownTimeout(cds, id, c) ==
    LET byUser == put(cds[id], c, NullEntry)
    IN IF DOMAIN byUser = {} THEN delete(cds, id) ELSE put(cds, id, byUser)

\* Object.assign(a, b)
assign(a, b) ==
    [k \in (DOMAIN a) \cup (DOMAIN b) |-> IF k \in DOMAIN b THEN b[k] ELSE a[k]]

\* Argument.cast: a list of alias groups, a function (pick is what the
\* function does with the phrase) or no known type
RECURSIVE castList(_, _, _)
castList(entries, i, phrase) ==
    IF i > Len(entries) THEN "null"
    ELSE IF \E j \in 1..Len(entries[i]) :
                toLowerCase(entries[i][j]) = toLowerCase(phrase)
    THEN "value"
    ELSE castList(entries, i + 1, phrase)

cast(type, phrase, pick) ==
    CASE type.kind = "list" -> castList(type.entries, 1, phrase)
      [] type.kind = "fn" ->
            (CASE pick = "pass" -> "value" [] pick = "block" -> "null" [] OTHER -> "fault")
      [] OTHER -> IF phrase /= <<>> THEN "value" ELSE "null"

\* CommandHandler#runAllTypeInhibitors once inhibitorHandler.test has settled
\* with outcome
runAllTypeInhibitorsBotsPass(th, m, ps, outcome) ==
    IF outcome = "block"
    THEN [blocked |-> TRUE, th |-> emit(th, MESSAGE_BLOCKED, "", "custom")]
    ELSE IF blockClient /\ m.author = selfId
    THEN [blocked |-> TRUE, th |-> emit(th, MESSAGE_BLOCKED, "", "client")]
    ELSE IF hasPrompt(ps, m.channel, m.author)
    THEN [blocked |-> TRUE, th |-> emit(th, IN_PROMPT, "", "")]
    ELSE [blocked |-> FALSE, th |-> th]

runAllTypeInhibitors(th, m, ps, outcome) ==
    IF outcome = "block"
    THEN [blocked |-> TRUE, th |-> emit(th, MESSAGE_BLOCKED, "", "custom")]
    ELSE IF blockClient /\ m.author = selfId
    THEN [blocked |-> TRUE, th |-> emit(th, MESSAGE_BLOCKED, "", "client")]
    ELSE IF blockBots /\ m.bot
    THEN [blocked |-> TRUE, th |-> emit(th, MESSAGE_BLOCKED, "", "bot")]
    ELSE IF hasPrompt(ps, m.channel, m.author)
    THEN [blocked |-> TRUE, th |-> emit(th, IN_PROMPT, "", "")]
    ELSE [blocked |-> FALSE, th |-> th]

runPreTypeInhibitors(th, outcome) ==
    IF outcome = "block"
    THEN [blocked |-> TRUE, th |-> emit(th, MESSAGE_BLOCKED, "", "custom")]
    ELSE [blocked |-> FALSE, th |-> th]

runPostTypeInhibitorsCooldownFirst(th, m, command, perm, inh, cds, tms, clock) ==
    LET cool == runCooldowns(cds, tms, m, command, clock)
        stop(e, r) == [blocked |-> TRUE, fault |-> FALSE, th |-> emit(th, e, command.id, r),
                       cooldowns |-> cool.cooldowns, timers |-> cool.timers]
        thrown(what) == [blocked |-> FALSE, fault |-> TRUE, th |-> throw(th, what),
                         cooldowns |-> cds, timers |-> tms]
    IN IF command.ownerOnly /\ m.author /= ownerID THEN stop(COMMAND_BLOCKED, "owner")
       ELSE IF command.channel = "guild" /\ ~m.guild THEN stop(COMMAND_BLOCKED, "guild")
       ELSE IF command.channel = "dm" /\ m.guild THEN stop(COMMAND_BLOCKED, "dm")
       ELSE IF command.userPermissions /\ perm = "fault" THEN thrown("permission")
       ELSE IF command.userPermissions /\ perm = "block" THEN stop(MISSING_PERMISSIONS, "user")
       ELSE IF inh = "fault" THEN thrown("inhibitor")
       ELSE IF inh = "block" THEN stop(COMMAND_BLOCKED, "custom")
       ELSE IF cool.blocked
       THEN [blocked |-> TRUE, fault |-> FALSE,
             th |-> [emit(th, COOLDOWN, command.id, "") EXCEPT !.diff = cool.diff],
             cooldowns |-> cool.cooldowns, timers |-> cool.timers]
       ELSE [blocked |-> FALSE, fault |-> FALSE, th |-> th,
             cooldowns |-> cool.cooldowns, timers |-> cool.timers]

\* CommandHandler#runPostTypeInhibitors with runPermissionChecks: perm and
\* inh are what the permission function and the post inhibitors do
runPostTypeInhibitors(th, m, command, perm, inh, cds, tms, clock) ==
    LET cool == runCooldowns(cds, tms, m, command, clock)
        stop(e, r) == [blocked |-> TRUE, fault |-> FALSE, th |-> emit(th, e, command.id, r),
                       cooldowns |-> cds, timers |-> tms]
        thrown(what) == [blocked |-> FALSE, fault |-> TRUE, th |-> throw(th, what),
                         cooldowns |-> cds, timers |-> tms]
    IN IF command.ownerOnly /\ m.author /= ownerID THEN stop(COMMAND_BLOCKED, "owner")
       ELSE IF command.channel = "guild" /\ ~m.guild THEN stop(COMMAND_BLOCKED, "guild")
       ELSE IF command.channel = "dm" /\ m.guild THEN stop(COMMAND_BLOCKED, "dm")
       ELSE IF command.userPermissions /\ perm = "fault" THEN thrown("permission")
       ELSE IF command.userPermissions /\ perm = "block" THEN stop(MISSING_PERMISSIONS, "user")
       ELSE IF inh = "fault" THEN thrown("inhibitor")
       ELSE IF inh = "block" THEN stop(COMMAND_BLOCKED, "custom")
       ELSE IF cool.blocked
       THEN [blocked |-> TRUE, fault |-> FALSE,
             th |-> [emit(th, COOLDOWN, command.id, "") EXCEPT !.diff = cool.diff],
             cooldowns |-> cool.cooldowns, timers |-> cool.timers]
       ELSE [blocked |-> FALSE, fault |-> FALSE, th |-> th,
             cooldowns |-> cool.cooldowns, timers |-> cool.timers]

\* The options of a prompt as Argument#collect merges them
promptOptionsOf(command, arg) ==
    assign(assign(defaultPrompt, command.defaultPrompt), arg.prompt.opts)

isInfiniteOf(command, arg, commandInput) ==
    /\ promptOptionsOf(command, arg).infinite
    /\ (arg.match = "separate" => commandInput = <<>>)

\* promptOne up to its awaitMessages: the start or retry text, when it is sent
promptOne(th, opts, isInfinite, retryCount) ==
    LET shouldSend == IF retryCount = 1 THEN ~isInfinite \/ th.values = <<>> ELSE TRUE
        promptType == IF retryCount = 1 THEN "start" ELSE "retry"
        text == IF retryCount = 1 THEN opts.start ELSE opts.retry
        asked == IF shouldSend /\ text THEN emit(th, SEND, "", promptType) ELSE th
    IN [asked EXCEPT !.rc = retryCount, !.pc = "await", !.input = 0]

runCommandUnannounced(th) ==
    [th EXCEPT !.pc = "exec", !.input = 0]

\* CommandHandler#runCommand up to the call of the command body
runCommand(th) ==
    [emit(th, COMMAND_STARTED, th.cmd, "") EXCEPT !.pc = "exec", !.input = 0]

\* The phrase that the argument parser hands to the argument at position 1
phraseOf(content) == firstToken(trim(content))

\* handleDirectCommand on a cancel flag
cancelledButRun(ts, t, th, listener) ==
    [ts EXCEPT ![t] = runCommand(emit(th, COMMAND_CANCELLED, th.cmd, ""))]

cancelled(ts, t, th, listener) ==
    ranTo(ts, t, emit(th, COMMAND_CANCELLED, th.cmd, ""), "false", listener)

(***************************************************************************)
(* The steps of the pipeline                                               *)
(***************************************************************************)
MaxLive == 2

MaxTime == 3

live == {t \in 1..Len(tasks) : tasks[t].pc /= "done"}

\* Timers are punctual: what is due runs before the clock or a check moves on
noneDue == \A tm \in timers : tm.at > now

isBranch(th) == th.kind \in {"regex", "cond"}

sendIf(th, text, promptType) ==
    IF text THEN emit(th, SEND, "", promptType) ELSE th

optional(opts) == "optional" \in DOMAIN opts /\ opts.optional

\* The client's message event: CommandHandler#setup calls handle, which runs
\* up to the inhibitor test it awaits, and the collector of every prompt that
\* waits for this author in this channel takes the message
Deliver(author, channel, content, edited, guild, bot) ==
    /\ Cardinality(live) < MaxLive
    /\ LET id == Len(msgs) + 1
           m == [author |-> author, channel |-> channel, content |-> content,
                 createdTimestamp |-> now, edited |-> edited, guild |-> guild,
                 bot |-> bot]
           collected ==
               [t \in 1..Len(tasks) |->
                   IF /\ tasks[t].pc = "await"
                      /\ msgs[tasks[t].msg].channel = channel
                      /\ msgs[tasks[t].msg].author = author
                   THEN [tasks[t] EXCEPT !.pc = "input", !.input = id]
                   ELSE tasks[t]]
       IN /\ msgs' = Append(msgs, m)
          /\ tasks' = Append(collected, newTask(id, "top", 0, "all", ""))
    /\ UNCHANGED <<regVars, cfgVars, parsed, runCfgVars, prompts, cooldowns, timers, now>>

\* A new message of a person, written in a guild channel
Arrive(author, channel, content) == Deliver(author, channel, content, FALSE, TRUE, FALSE)

RECURSIVE spawn(_, _, _, _)
spawn(ts, parent, kind, ids) ==
    IF ids = {} THEN ts
    ELSE LET c == CHOOSE x \in ids : TRUE
         IN spawn(Append(ts, newTask(ts[parent].msg, kind, parent, "post", c)),
                  parent, kind, ids \ {c})

\* The commands that handleRegexCommands and handleConditionalCommands select
regexMatches(m) ==
    {c \in DOMAIN modules : /\ m.edited => modules[c].editable
                            /\ modules[c].regex /= <<>>
                            /\ indexOf(m.content, modules[c].regex) >= 0}

conditionMatches(m) ==
    {c \in DOMAIN modules : /\ m.edited => modules[c].editable
                            /\ modules[c].condition /= <<>>
                            /\ indexOf(m.content, modules[c].condition) >= 0}

\* handle from the settling of the 'all' inhibitors (all) through the 'pre'
\* inhibitors (pre) and parseCommand to the command path: for a command found
\* by its alias, handleDirectCommand up to the end of runPostTypeInhibitors
\* (perm, inh); else the start of the fan-out
Handle(t, all, pre, perm, inh) ==
    /\ tasks[t].pc = "all"
    /\ noneDue
    /\ \E found \in {parseCommand(registry, handlerPrefix, allowMention,
                                  msgs[tasks[t].msg].content)} :
       LET th == tasks[t]
           m == msgs[th.msg]
           ra == runAllTypeInhibitors(th, m, prompts, all)
           rp == runPreTypeInhibitors(th, pre)
           command == found.command
           direct == /\ all = "pass" /\ ~ra.blocked /\ pre = "pass"
                     /\ command.id /= "" /\ ~(m.edited /\ ~command.editable)
           r == runPostTypeInhibitors([th EXCEPT !.cmd = command.id], m, command,
                                      perm, inh, cooldowns, timers, now)
       IN /\ (all /= "pass" \/ ra.blocked) => pre = "pass"
          /\ ~direct => perm = "pass" /\ inh = "pass"
          /\ direct /\ ~command.userPermissions => perm = "pass"
          /\ tasks' =
               IF all = "fault" THEN fail(tasks, t, throw(th, "inhibitor"), "", errorListener)
               ELSE IF ra.blocked
               THEN returned([tasks EXCEPT ![t] = ra.th], t, "false", errorListener)
               ELSE IF pre = "fault" THEN fail(tasks, t, throw(th, "inhibitor"), "", errorListener)
               ELSE IF rp.blocked
               THEN returned([tasks EXCEPT ![t] = rp.th], t, "false", errorListener)
               ELSE IF direct
               THEN IF r.fault THEN fail(tasks, t, r.th, command.id, errorListener)
                    ELSE IF r.blocked THEN ranTo(tasks, t, r.th, "false", errorListener)
                    ELSE [tasks EXCEPT ![t].pc = "args", ![t].cmd = command.id,
                                       ![t].content = found.content]
               ELSE IF command.id /= "" THEN ranTo(tasks, t, th, "false", errorListener)
               ELSE IF regexMatches(m) /= {}
               THEN spawn([tasks EXCEPT ![t].pc = "regex"], t, "regex", regexMatches(m))
               ELSE IF conditionMatches(m) /= {}
               THEN spawn([tasks EXCEPT ![t].pc = "cond"], t, "cond", conditionMatches(m))
               ELSE ranTo(tasks, t, th, "false", errorListener)
          /\ cooldowns' = IF direct THEN r.cooldowns ELSE cooldowns
          /\ timers' = IF direct THEN r.timers ELSE timers
    /\ UNCHANGED <<regVars, cfgVars, parsed, runCfgVars, msgs, prompts, now>>

\* The continuation of await Promise.all(promises) in handleRegexCommands and
\* in handleConditionalCommands
Join(t) ==
    /\ tasks[t].pc \in {"regex", "cond"}
    /\ LET th == tasks[t]
           kids == {k \in 1..Len(tasks) : tasks[k].parent = t /\ tasks[k].kind = th.pc}
           later == conditionMatches(msgs[th.msg])
       IN IF \E k \in kids : tasks[k].result = "rejected"
          THEN tasks' = fail(tasks, t, throw(th, "branch"), "", errorListener)
          ELSE /\ \A k \in kids : tasks[k].pc = "done"
               /\ tasks' = IF th.pc = "regex" /\ later /= {}
                           THEN spawn([tasks EXCEPT ![t].pc = "cond"], t, "cond", later)
                           ELSE ranTo(tasks, t, th, "true", errorListener)
    /\ UNCHANGED <<regVars, cfgVars, parsed, runCfgVars, msgs, prompts, cooldowns, timers, now>>

\* runPostTypeInhibitors of a fan-out branch
PostStage(t, perm, inh) ==
    /\ tasks[t].pc = "post"
    /\ noneDue
    /\ LET th == tasks[t]
           command == modules[th.cmd]
           r == runPostTypeInhibitors(th, msgs[th.msg], command, perm, inh,
                                      cooldowns, timers, now)
       IN /\ ~command.userPermissions => perm = "pass"
          /\ tasks' = IF r.fault THEN fail(tasks, t, r.th, command.id, errorListener)
                      ELSE IF r.blocked
                      THEN returned([tasks EXCEPT ![t] = r.th], t, "undefined", errorListener)
                      ELSE [tasks EXCEPT ![t].pc = "args"]
          /\ cooldowns' = r.cooldowns
          /\ timers' = r.timers
    /\ UNCHANGED <<regVars, cfgVars, parsed, runCfgVars, msgs, prompts, now>>

\* command.before, then command.parse and Argument#process for the argument
\* of the command, up to the first prompt or to the call of the command body
ArgsStage(t, before, pick) ==
    /\ tasks[t].pc = "args"
    /\ LET th == tasks[t]
           m == msgs[th.msg]
           command == modules[th.cmd]
           plain == isBranch(th) \/ command.args = <<>>
           arg == command.args[1]
           phrase == trim(phraseOf(th.content))
           isOptional == \/ optional(arg.prompt.opts)
                         \/ optional(command.defaultPrompt)
                         \/ optional(defaultPrompt)
           res == cast(arg.type, phrase, pick)
           additionalRetry == IF phrase /= <<>> THEN 1 ELSE 0
           collects == /\ before /= "fault"
                       /\ ~plain
                       /\ ~(phrase = <<>> /\ isOptional)
                       /\ res = "null"
                       /\ arg.prompt.has
       IN /\ before \in {"pass", "fault"}
          /\ plain => pick = "pass"
          /\ tasks' =
               IF before = "fault"
               THEN fail(tasks, t, throw(th, "before"), command.id, errorListener)
               ELSE IF plain \/ (phrase = <<>> /\ isOptional)
               THEN [tasks EXCEPT ![t] = runCommand(th)]
               ELSE IF res = "fault"
               THEN fail(tasks, t, throw([th EXCEPT !.parsedValue = res], "caster"),
                         command.id, errorListener)
               ELSE IF collects
               THEN [tasks EXCEPT ![t] =
                        promptOne([th EXCEPT !.add = additionalRetry, !.parsedValue = res],
                                  promptOptionsOf(command, arg),
                                  isInfiniteOf(command, arg, phrase), 1 + additionalRetry)]
               ELSE [tasks EXCEPT ![t] = runCommand([th EXCEPT !.parsedValue = res])]
          /\ prompts' = IF collects THEN addPrompt(prompts, m.channel, m.author)
                        ELSE prompts
    /\ UNCHANGED <<regVars, cfgVars, parsed, runCfgVars, msgs, cooldowns, timers, now>>

\* promptOne: is the reply the cancel word, and may an invalid reply be retried
isCancelWordExact(content, opts) == content = opts.cancelWord

isCancelWord(content, opts) == toLowerCase(content) = toLowerCase(opts.cancelWord)

isStopWordExact(content, opts) == content = opts.stopWord

isStopWord(content, opts) == toLowerCase(content) = toLowerCase(opts.stopWord)

retriesRemainOneMore(retryCount, opts) == retryCount <= opts.retries + 1

retriesRemain(retryCount, opts) == retryCount <= opts.retries

\* promptOne from the reply that awaitMessages resolved with, and what collect,
\* command.parse and handleDirectCommand do with the outcome
ProcessInput(t, pick) ==
    /\ tasks[t].pc = "input"
    /\ \E opts \in {promptOptionsOf(modules[tasks[t].cmd], modules[tasks[t].cmd].args[1])},
          looksLike \in {parseCommand(registry, handlerPrefix, allowMention,
                                      msgs[tasks[t].input].content)} :
       LET th == tasks[t]
           m == msgs[th.msg]
           command == modules[th.cmd]
           arg == command.args[1]
           isInfinite == opts.infinite /\ (arg.match = "separate" => th.add = 0)
           input == msgs[th.input]
           uncast == [th EXCEPT !.parsedValue = ""]
           res == cast(arg.type, input.content, pick)
           cast_ == [th EXCEPT !.parsedValue = res]
           pushed == [cast_ EXCEPT !.values = Append(@, th.input)]
           free == removePrompt(prompts, m.channel, m.author)
       IN IF opts.breakout /\ looksLike.command.id /= ""
          THEN /\ prompts' = free
               /\ tasks' = Append([tasks EXCEPT ![t] = [uncast EXCEPT !.pc = "nested"]],
                                  newTask(th.input, "retry", t, "all", ""))
          ELSE IF isCancelWord(input.content, opts)
          THEN /\ prompts' = free
               /\ tasks' = cancelled(tasks, t, sendIf(uncast, opts.cancel, "cancel"), errorListener)
          ELSE IF isInfinite /\ isStopWord(input.content, opts)
          THEN IF th.values = <<>>
               THEN /\ tasks' = [tasks EXCEPT ![t] = promptOne(uncast, opts, isInfinite, th.rc + 1)]
                    /\ prompts' = prompts
               ELSE /\ prompts' = free
                    /\ tasks' = [tasks EXCEPT ![t] = runCommand(uncast)]
          ELSE IF res = "fault"
          THEN /\ prompts' = prompts
               /\ tasks' = fail(tasks, t, throw(cast_, "caster"), command.id, errorListener)
          ELSE IF res = "null" /\ retriesRemain(th.rc, opts)
          THEN /\ prompts' = prompts
               /\ tasks' = [tasks EXCEPT ![t] = promptOne(cast_, opts, isInfinite, th.rc + 1)]
          ELSE IF res = "null"
          THEN /\ prompts' = free
               /\ tasks' = cancelled(tasks, t, sendIf(cast_, opts.ended, "ended"), errorListener)
          ELSE IF isInfinite /\ Len(pushed.values) < opts.limit
          THEN /\ prompts' = prompts
               /\ tasks' = [tasks EXCEPT ![t] = promptOne(pushed, opts, isInfinite, 1)]
          ELSE /\ prompts' = free
               /\ tasks' = [tasks EXCEPT ![t] =
                              runCommand(IF isInfinite THEN pushed ELSE cast_)]
    /\ UNCHANGED <<regVars, cfgVars, parsed, runCfgVars, msgs, cooldowns, timers, now>>

\* awaitMessages rejects: no reply within the time of the prompt
PromptTimeout(t) ==
    /\ tasks[t].pc = "await"
    /\ LET th == tasks[t]
           m == msgs[th.msg]
           command == modules[th.cmd]
           opts == promptOptionsOf(command, command.args[1])
       IN /\ prompts' = removePrompt(prompts, m.channel, m.author)
          /\ tasks' = cancelled(tasks, t, sendIf(th, opts.timeout, "timeout"), errorListener)
    /\ UNCHANGED <<regVars, cfgVars, parsed, runCfgVars, msgs, cooldowns, timers, now>>

\* runCommand after await command.exec: the command body settles, with the
\* value ret when it returns.  A fan-out branch awaits runCommand inside its
\* try; handleDirectCommand returns the promise of runCommand without
\* awaiting it, so that the fault of a body passes its catch and is caught
\* by the try of handle, which knows no command.
runCommandSettled(t, outcome, ret) ==
    /\ tasks[t].pc = "exec"
    /\ outcome \in {"pass", "fault"}
    /\ LET th == tasks[t]
           ran == emit(th, COMMAND_FINISHED, th.cmd, ret)
       IN tasks' = IF outcome = "fault"
                   THEN fail(tasks, t, throw(th, "exec"),
                             IF isBranch(th) THEN th.cmd ELSE "", errorListener)
                   ELSE IF isBranch(th)
                   THEN returned([tasks EXCEPT ![t] = ran], t, "undefined", errorListener)
                   ELSE ranTo(tasks, t, ran, "undefined", errorListener)
    /\ UNCHANGED <<regVars, cfgVars, parsed, runCfgVars, msgs, prompts, cooldowns, timers, now>>

\* The command body settles; a body that returns gives undefined
ExecSettle(t, outcome) == runCommandSettled(t, outcome, "")

\* A cooldown timer runs out
TimerFire(tm) ==
    /\ tm \in timers
    /\ tm.at <= now
    /\ cooldowns' = cooldownTimeout(cooldowns, tm.user, tm.cmd)
    /\ timers' = timers \ {tm}
    /\ UNCHANGED <<regVars, cfgVars, parsed, runCfgVars, msgs, tasks, prompts, now>>

Tick ==
    /\ now < MaxTime
    /\ noneDue
    /\ now' = now + 1
    /\ UNCHANGED <<regVars, cfgVars, parsed, runCfgVars, msgs, tasks, prompts, cooldowns, timers>>

(***************************************************************************)
(* The pipeline with a prompting command                                   *)
(***************************************************************************)
MaxRetries == 1
MaxMsgs == 3

\* A command as its constructor leaves it
baseCommand(id, alias) ==
    [id |-> id, aliases |-> <<alias>>, prefix |-> NoPrefix, args |-> <<>>,
     defaultPrompt |-> EmptyMap, cooldown |-> nullCooldown, ratelimit |-> 1,
     ownerOnly |-> FALSE, channel |-> "", editable |-> TRUE, regex |-> <<>>,
     condition |-> <<>>, ignoreCooldown |-> "", userPermissions |-> FALSE,
     enabled |-> TRUE]

\* The modules loaded when the client starts
RECURSIVE loadAll(_, _, _)
loadAll(reg, commands, i) ==
    IF i > Len(commands) THEN reg
    ELSE LET r == register(reg, commands[i], FALSE)
         IN loadAll([modules |-> r.modules, aliases |-> r.aliases,
                     prefixes |-> r.prefixes], commands, i + 1)

\* "ask" prompts for its one argument, "ping" takes none
askCommand(retries, infinite) ==
    [baseCommand("ask", <<"a", "s", "k">>) EXCEPT
        !.userPermissions = TRUE,
        !.args = <<[id |-> "what", type |-> [kind |-> "fn", entries |-> <<>>],
                    match |-> "phrase",
                    prompt |-> [has |-> TRUE,
                                opts |-> [start |-> TRUE, retry |-> TRUE,
                                          timeout |-> TRUE, ended |-> TRUE,
                                          cancel |-> TRUE, retries |-> retries,
                                          infinite |-> infinite, limit |-> 2]]]>>]

pingCommand == baseCommand("ping", <<"p", "i", "n", "g">>)

AskText == <<"!", "a", "s", "k">>
PingText == <<"!", "p", "i", "n", "g">>

Init ==
    /\ \E retries \in 0..MaxRetries :
          LET reg == loadAll([modules |-> EmptyMap, aliases |-> EmptyMap, prefixes |-> <<>>],
                             <<askCommand(retries, FALSE), pingCommand>>, 1)
          IN /\ modules = reg.modules
             /\ aliases = reg.aliases
             /\ prefixes = reg.prefixes
    /\ aliasReplacement = FALSE
    /\ regResult = [fault |-> NoFault, id |-> "", conflict |-> ""]
    /\ handlerPrefix = [kind |-> "str", vals |-> <<<<"!">>>>]
    /\ allowMention = TRUE
    /\ parsed = NotParsed
    /\ IdleRun

\* Every inhibitor, permission check and hook lets the message through and
\* no command body faults; the caster accepts or refuses a phrase
waiting == \E t \in 1..Len(tasks) : tasks[t].pc = "await"

Message ==
    /\ Len(msgs) < MaxMsgs
    /\ \/ \E text \in {AskText, AskText \o <<" ", "x">>, PingText} : Arrive("u1", "c1", text)
       \/ waiting /\ \E text \in {<<"C", "a", "n", "c", "e", "l">>, <<"o", "k">>} :
                        Arrive("u1", "c1", text)
       \/ waiting /\ Arrive("u2", "c1", PingText)
       \/ waiting /\ Arrive("u1", "c2", PingText)

Inhibitors == \E t \in 1..Len(tasks) : Handle(t, "pass", "pass", "pass", "pass")

Arguments == \E t \in 1..Len(tasks), pick \in {"pass", "block"} : ArgsStage(t, "pass", pick)

Reply == \E t \in 1..Len(tasks), pick \in {"pass", "block"} : ProcessInput(t, pick)

NoReply == \E t \in 1..Len(tasks) : PromptTimeout(t)

Exec == \E t \in 1..Len(tasks) : ExecSettle(t, "pass")

Next ==
    \/ Message
    \/ Inhibitors
    \/ Arguments
    \/ Reply
    \/ NoReply
    \/ Exec

Spec == Init /\ [][Next]_vars
(***************************************************************************)
(* Prompt sessions                                                         *)
(***************************************************************************)
channelOf(t) == msgs[tasks[t].msg].channel
authorOf(t) == msgs[tasks[t].msg].author

\* The task is inside Argument#collect, between addPrompt and removePrompt
prompting(t) == tasks[t].pc \in {"await", "input"}

\* A prompt session is live for the pair
sessionLive(channel, user) ==
    \E s \in 1..Len(tasks) : prompting(s) /\ channelOf(s) = channel /\ authorOf(s) = user

has(th, e) == \E i \in 1..Len(th.ev) : th.ev[i] = e

sent(th, promptType) == has(th, E(SEND, "", promptType))

\* C2: while a prompt session is live for a (conversation, actor) pair, every
\* new top-level message of that actor in that conversation is rejected at
\* the 'all' stage with the in-prompt event and nothing after it; a message
\* of a pair without a live session is not rejected as in-prompt.
C2_LiveSessionRejectsNewMessages ==
    [][\A t \in 1..Len(tasks) :
          (tasks[t].kind = "top" /\ tasks[t].pc = "all" /\ tasks'[t].pc /= "all") =>
             IF sessionLive(channelOf(t), authorOf(t))
             THEN /\ tasks'[t].pc = "done"
                  /\ tasks'[t].ev = <<E(IN_PROMPT, "", "")>>
             ELSE ~has(tasks'[t], E(IN_PROMPT, "", ""))]_vars

\* C3: when a prompt ends as resolved, cancelled, timed out, ended or broken
\* out of, the session of its pair is no longer registered.
C3_TerminalPromptRemovesSession ==
    [][\A t \in 1..Len(tasks) :
          (prompting(t) /\ ~prompting(t)' /\ tasks'[t].err = "") =>
             ~hasPrompt(prompts', channelOf(t), authorOf(t))]_vars

C3_Witness ==
    \E t \in 1..Len(tasks) :
        /\ tasks[t].pc = "done"
        /\ sent(tasks[t], "ended")
        /\ ~hasPrompt(prompts, channelOf(t), authorOf(t))

CancelText == <<"C", "a", "n", "c", "e", "l">>

\* The reply that task t is about to process is the cancel word in any case
cancelReply(t) ==
    /\ tasks[t].pc = "input"
    /\ toLowerCase(msgs[tasks[t].input].content) = <<"c", "a", "n", "c", "e", "l">>

\* C4: a reply that is the cancel word, in any case, resolves the argument
\* to a cancellation and removes the session, and a message handled while no
\* session is registered for its pair is dispatched to its command rather
\* than rejected as in-prompt.
C4_CancelWordFreesTheActor ==
    [][\A t \in 1..Len(tasks) :
          /\ (cancelReply(t) /\ tasks'[t] /= tasks[t]) =>
                /\ tasks'[t].pc = "done"
                /\ has(tasks'[t], E(COMMAND_CANCELLED, tasks[t].cmd, ""))
                /\ ~has(tasks'[t], E(COMMAND_STARTED, tasks[t].cmd, ""))
                /\ ~hasPrompt(prompts', channelOf(t), authorOf(t))
          /\ (/\ tasks[t].pc = "all" /\ tasks'[t].pc /= "all"
              /\ ~hasPrompt(prompts, channelOf(t), authorOf(t))
              /\ msgs[tasks[t].msg].content = PingText) =>
                tasks'[t].pc = "args" /\ tasks'[t].cmd = "ping"]_vars

C4_Witness ==
    \E t \in 1..Len(tasks), k \in 1..Len(msgs), u \in 1..Len(tasks) :
        /\ sent(tasks[t], "cancel")
        /\ msgs[k].content = CancelText
        /\ tasks[u].msg > k
        /\ channelOf(u) = channelOf(t) /\ authorOf(u) = authorOf(t)
        /\ has(tasks[u], E(COMMAND_STARTED, "ping", ""))

\* The task's command prompts in scalar mode
scalar(t) ==
    /\ tasks[t].cmd /= ""
    /\ modules[tasks[t].cmd].args /= <<>>
    /\ ~promptOptionsOf(modules[tasks[t].cmd], modules[tasks[t].cmd].args[1]).infinite

retryLimit(t) ==
    promptOptionsOf(modules[tasks[t].cmd], modules[tasks[t].cmd].args[1]).retries

\* How many times the task has asked: its start and retry prompts
asked(th) ==
    Cardinality({i \in 1..Len(th.ev) :
                    th.ev[i] \in {E(SEND, "", "start"), E(SEND, "", "retry")}})

\* C5: in scalar mode with retries = R a prompt asks at most R + 1 times; an
\* invalid reply while retries remain gives a retry prompt with the retry count
\* incremented, and the invalid reply that exhausts them gives the ended
\* message and a cancellation without a further prompt.
C5_RetriesBoundThePrompts ==
    /\ [](\A t \in 1..Len(tasks) : scalar(t) => asked(tasks[t]) <= retryLimit(t) + 1)
    /\ [][\A t \in 1..Len(tasks) :
            (/\ tasks[t].pc = "input" /\ scalar(t) /\ tasks'[t] /= tasks[t]
             /\ tasks'[t].parsedValue = "null") =>
               IF tasks[t].rc <= retryLimit(t)
               THEN /\ tasks'[t].pc = "await"
                    /\ tasks'[t].rc = tasks[t].rc + 1
                    /\ tasks'[t].ev = Append(tasks[t].ev, E(SEND, "", "retry"))
               ELSE /\ tasks'[t].pc = "done"
                    /\ sent(tasks'[t], "ended")
                    /\ has(tasks'[t], E(COMMAND_CANCELLED, tasks[t].cmd, ""))
                    /\ asked(tasks'[t]) = asked(tasks[t])]_vars

C5_Witness ==
    \E t \in 1..Len(tasks) :
        /\ scalar(t) /\ retryLimit(t) = 1
        /\ sent(tasks[t], "ended")
        /\ asked(tasks[t]) = 2

\* C6: a prompt that ends by the cancel word, by a timeout or by exhausted
\* retries abandons the command: its body is never called for the message,
\* no command-started event is emitted and one command-cancelled event is.
C6_CancelledPromptAbandonsCommand ==
    \A t \in 1..Len(tasks) :
        (sent(tasks[t], "cancel") \/ sent(tasks[t], "timeout") \/ sent(tasks[t], "ended")) =>
            /\ tasks[t].pc = "done"
            /\ ~has(tasks[t], E(COMMAND_STARTED, tasks[t].cmd, ""))
            /\ ~has(tasks[t], E(COMMAND_FINISHED, tasks[t].cmd, ""))
            /\ Cardinality({i \in 1..Len(tasks[t].ev) :
                              tasks[t].ev[i] = E(COMMAND_CANCELLED, tasks[t].cmd, "")}) = 1
            /\ \A u \in 1..Len(tasks) : tasks[u].kind = "retry" => tasks[u].parent /= t

C6_Witness ==
    \E t \in 1..Len(tasks), u \in 1..Len(tasks) :
        /\ sent(tasks[t], "timeout")
        /\ sent(tasks[u], "cancel")
        /\ has(tasks[t], E(COMMAND_CANCELLED, "ask", ""))
        /\ has(tasks[u], E(COMMAND_CANCELLED, "ask", ""))

(***************************************************************************)
(* The pipeline with a command under cooldown                              *)
(***************************************************************************)
MaxCoolMsgs == 4
CoolTime == 2

coolCommand(ratelimit) ==
    [baseCommand("cool", <<"c", "o", "o", "l">>) EXCEPT
        !.cooldown = CoolTime, !.ratelimit = ratelimit]

CoolText == <<"!", "c", "o", "o", "l">>

InitCool ==
    /\ \E ratelimit \in 1..2 :
          LET reg == loadAll([modules |-> EmptyMap, aliases |-> EmptyMap, prefixes |-> <<>>],
                             <<coolCommand(ratelimit)>>, 1)
          IN /\ modules = reg.modules
             /\ aliases = reg.aliases
             /\ prefixes = reg.prefixes
    /\ aliasReplacement = FALSE
    /\ regResult = [fault |-> NoFault, id |-> "", conflict |-> ""]
    /\ handlerPrefix = [kind |-> "str", vals |-> <<<<"!">>>>]
    /\ allowMention = TRUE
    /\ parsed = NotParsed
    /\ IdleRun

\* The actor u1 and the owner, who is on the ignore list, invoke the command
CoolMessage ==
    /\ Len(msgs) < MaxCoolMsgs
    /\ \E author \in {"u1", ownerID} : Arrive(author, "c1", CoolText)

CoolCheck == \E t \in 1..Len(tasks) : Handle(t, "pass", "pass", "pass", "pass")

CoolRun == \E t \in 1..Len(tasks) : ArgsStage(t, "pass", "pass")

CoolDone == \E t \in 1..Len(tasks) : ExecSettle(t, "pass")

CoolTimer == \E tm \in timers : TimerFire(tm)

NextCool ==
    \/ CoolMessage
    \/ CoolCheck
    \/ CoolRun
    \/ CoolDone
    \/ CoolTimer
    \/ Tick

SpecCool == InitCool /\ [][NextCool]_vars

\* The cooldown window of an actor for a command is open while its timer runs
windowOpen(user, c) == \E tm \in timers : tm.user = user /\ tm.cmd = c

\* The invocations of the actor that passed the check in the open window
usesOf(user, c) ==
    IF windowOpen(user, c) /\ user \in DOMAIN cooldowns /\ c \in DOMAIN cooldowns[user]
    THEN cooldowns[user][c].uses ELSE 0

passed(th) == th.pc \in {"args", "exec"} \/ has(th, E(COMMAND_STARTED, th.cmd, ""))

cooled(th) ==
    Cardinality({i \in 1..Len(th.ev) : th.ev[i].e = COOLDOWN}) = 1 /\ ~passed(th)

\* C7: with ratelimit N and cooldown T > 0, of the invocations of an actor
\* who is not on the ignore list that reach the check in one window the
\* first N pass and each later one emits exactly one cooldown event and is
\* not executed; the window closes T after it began, and the next invocation
\* passes again and opens a new window.
C7_RatelimitPerWindow ==
    /\ [](\A tm \in timers : tm.at <= now + modules[tm.cmd].cooldown)
    /\ [][\A t \in 1..Len(tasks) :
            (/\ tasks[t].pc = "all" /\ tasks'[t].pc /= "all"
             /\ msgs[tasks[t].msg].content = CoolText) =>
               LET user == authorOf(t)
                   N == modules["cool"].ratelimit
                   T == modules["cool"].cooldown
               IN IF user = ownerID
                  THEN passed(tasks'[t]) /\ timers' = timers
                  ELSE /\ \A tm \in timers : tm.at > now
                       /\ IF usesOf(user, "cool") < N
                          THEN /\ passed(tasks'[t])
                               /\ \A i \in 1..Len(tasks'[t].ev) : tasks'[t].ev[i].e /= COOLDOWN
                               /\ usesOf(user, "cool")' = usesOf(user, "cool") + 1
                               /\ windowOpen(user, "cool")'
                               /\ ~windowOpen(user, "cool") =>
                                     [user |-> user, cmd |-> "cool", at |-> now + T] \in timers'
                          ELSE /\ cooled(tasks'[t])
                               /\ tasks'[t].pc = "done"
                               /\ timers' = timers]_vars

\* Ratelimit 2: two invocations pass, the third is cooled down, and a fourth
\* made once the window has closed passes
C7_Witness ==
    /\ modules["cool"].ratelimit = 2
    /\ \E t1, t2, t3, t4 \in 1..Len(tasks) :
          /\ t1 < t2 /\ t2 < t3 /\ t3 < t4
          /\ \A t \in {t1, t2, t3, t4} : authorOf(t) = "u1"
          /\ has(tasks[t1], E(COMMAND_FINISHED, "cool", ""))
          /\ has(tasks[t2], E(COMMAND_FINISHED, "cool", ""))
          /\ cooled(tasks[t3])
          /\ msgs[tasks[t3].msg].createdTimestamp < CoolTime
          /\ msgs[tasks[t4].msg].createdTimestamp >= CoolTime
          /\ has(tasks[t4], E(COMMAND_FINISHED, "cool", ""))

(***************************************************************************)
(* The pipeline with callbacks that fault, and with triggered commands     *)
(***************************************************************************)
MaxFaultMsgs == 2

HiText == <<"h", "i">>

\* "rx" is triggered by a regular expression and "cd" by a condition; both
\* hold of a message that contains "hi"
rxCommand == [baseCommand("rx", <<"r", "x">>) EXCEPT !.regex = HiText]

cdCommand == [baseCommand("cd", <<"c", "d">>) EXCEPT !.condition = HiText]

InitFault ==
    /\ LET reg == loadAll([modules |-> EmptyMap, aliases |-> EmptyMap, prefixes |-> <<>>],
                          <<askCommand(0, FALSE), rxCommand, cdCommand>>, 1)
       IN /\ modules = reg.modules
          /\ aliases = reg.aliases
          /\ prefixes = reg.prefixes
    /\ aliasReplacement = FALSE
    /\ regResult = [fault |-> NoFault, id |-> "", conflict |-> ""]
    /\ handlerPrefix = [kind |-> "str", vals |-> <<<<"!">>>>]
    /\ allowMention = TRUE
    /\ parsed = NotParsed
    /\ defaultPrompt = HandlerDefaultPrompt
    /\ errorListener \in BOOLEAN
    /\ msgs = <<>>
    /\ tasks = <<>>
    /\ prompts = EmptyMap
    /\ cooldowns = EmptyMap
    /\ timers = {}
    /\ now = 0

FaultMessage ==
    /\ Len(msgs) < MaxFaultMsgs
    /\ \/ \E text \in {AskText, HiText} : Arrive("u1", "c1", text)
       \/ waiting /\ Arrive("u1", "c1", <<"o", "k">>)

FaultHandle ==
    \E t \in 1..Len(tasks), all \in Outcomes, pre \in Outcomes, perm \in Outcomes,
       inh \in Outcomes : Handle(t, all, pre, perm, inh)

FaultBranch ==
    \E t \in 1..Len(tasks), perm \in Outcomes, inh \in Outcomes : PostStage(t, perm, inh)

FaultArguments ==
    \E t \in 1..Len(tasks), before \in Outcomes, pick \in Outcomes : ArgsStage(t, before, pick)

FaultReply == \E t \in 1..Len(tasks), pick \in Outcomes : ProcessInput(t, pick)

FaultExec == \E t \in 1..Len(tasks), outcome \in Outcomes : ExecSettle(t, outcome)

FaultJoin == \E t \in 1..Len(tasks) : Join(t)

NextFault ==
    \/ FaultMessage
    \/ FaultHandle
    \/ FaultBranch
    \/ FaultArguments
    \/ FaultReply
    \/ FaultExec
    \/ FaultJoin

SpecFault == InitFault /\ [][NextFault]_vars

\* The fan-out branches that a run of handle started
branches(t) == {b \in 1..Len(tasks) : tasks[b].parent = t /\ isBranch(tasks[b])}

\* The commands that the message of the run triggers by either mechanism
matchedFor(t) ==
    regexMatches(msgs[tasks[t].msg]) \cup conditionMatches(msgs[tasks[t].msg])

gated(th) ==
    \E i \in 1..Len(th.ev) : th.ev[i].e \in {COMMAND_BLOCKED, MISSING_PERMISSIONS, COOLDOWN}

\* C8: when several triggered commands match a message and the body of one
\* faults, every other matched command still runs to completion and emits
\* its command-finished event: once the run and its branches are over, each
\* matched command has a branch that finished, unless that branch was
\* blocked at its own gate or faulted itself.
C8_FaultDoesNotSuppressSiblings ==
    \A t \in 1..Len(tasks) :
        (/\ ~isBranch(tasks[t]) /\ tasks[t].pc = "done"
         /\ \A b \in branches(t) : tasks[b].pc = "done"
         /\ \E b \in branches(t) : tasks[b].err = "exec") =>
            \A c \in matchedFor(t) :
                \E b \in branches(t) :
                    /\ tasks[b].cmd = c
                    /\ \/ has(tasks[b], E(COMMAND_FINISHED, c, ""))
                       \/ tasks[b].err /= ""
                       \/ gated(tasks[b])

errors(th) == Cardinality({i \in 1..Len(th.ev) : th.ev[i].e = ERROR})

\* The run of handle that a run belongs to: a nested run reports to the run
\* that started it, a branch to the run that fanned out
RECURSIVE topOf(_)
topOf(t) == IF tasks[t].parent = 0 THEN t ELSE topOf(tasks[t].parent)

\* C9: a fault of an inhibitor, a permission check, a before hook, a caster
\* or a command body is emitted as one error event when an error listener is
\* registered, and the run that caught it ends there and resolves; with no
\* error listener nothing is emitted and handle fails for the message.
C9_FaultsReachTheErrorSink ==
    \A t \in 1..Len(tasks) :
        LET th == tasks[t]
        IN IF th.err = "" THEN errors(th) = 0
           ELSE /\ th.pc = "done"
                /\ IF errorListener
                   THEN /\ errors(th) = 1
                        /\ th.ev[Len(th.ev)].e = ERROR
                        /\ th.result = "null"
                        /\ tasks[topOf(t)].result /= "rejected"
                   ELSE /\ errors(th) = 0
                        /\ th.result = "rejected"
                        /\ tasks[topOf(t)].pc = "done" => tasks[topOf(t)].result = "rejected"
                        /\ tasks[t].kind = "retry" => tasks[topOf(t)].pc = "done"

C9_Witness ==
    \E t \in 1..Len(tasks), u \in 1..Len(tasks) :
        /\ errorListener
        /\ tasks[t].err = "caster"
        /\ sent(tasks[t], "start")
        /\ has(tasks[t], E(ERROR, "ask", ""))
        /\ tasks[u].err = "inhibitor"
        /\ has(tasks[u], E(ERROR, "", ""))

(***************************************************************************)
(* The registry with reloads: a loaded command is deregistered and at once *)
(* registered again, with the aliases and the prefix it has.               *)
(***************************************************************************)
\* Every command may declare the prefix overwrite "!!", so that commands
\* share an entry of the prefix index
RegisterShared ==
    \E id \in CmdIds, als \in AliasLists,
       p \in {NoPrefix, [kind |-> "str", vals |-> <<<<"!", "!">>>>]} :
        Register([aliases |-> als, prefix |-> p, id |-> id])

\* deregister(command) followed by register(command); a deregister that
\* throws ends the round trip
Reregister(id) ==
    /\ id \in DOMAIN modules
    /\ LET d == deregister(registry, modules[id], aliasReplacement)
           r == register([modules |-> d.modules, aliases |-> d.aliases,
                          prefixes |-> d.prefixes], modules[id], aliasReplacement)
       IN IF d.fault /= NoFault
          THEN /\ modules' = d.modules
               /\ aliases' = d.aliases
               /\ prefixes' = d.prefixes
               /\ regResult' = [fault |-> d.fault, id |-> id, conflict |-> ""]
          ELSE /\ modules' = r.modules
               /\ aliases' = r.aliases
               /\ prefixes' = r.prefixes
               /\ regResult' = [fault |-> r.fault, id |-> id, conflict |-> r.conflict]
    /\ UNCHANGED <<aliasReplacement, cfgVars, parsed, runCfgVars, runVars>>

ReregisterAny == \E id \in CmdIds : Reregister(id)

NextRound == RegisterShared \/ DeregisterAny \/ ReregisterAny

SpecRound == InitReg /\ [][NextRound]_vars

\* The prefix index as a set of (key, ids) pairs, whatever the order
membership(entries) == {entries[i] : i \in 1..Len(entries)}

\* The names that register files for a command
namesOf(command) ==
    {toLowerCase(command.aliases[i]) : i \in 1..Len(command.aliases)}
    \cup (IF aliasReplacement
          THEN {replaceSeparators(toLowerCase(command.aliases[i])) :
                    i \in 1..Len(command.aliases)}
          ELSE {})

\* The command is registered: it is loaded, each of its names is filed under
\* it and each of its prefix keys has an entry that holds it
registered(id) ==
    /\ id \in DOMAIN modules
    /\ \A name \in namesOf(modules[id]) :
          name \in DOMAIN aliases /\ aliases[name] = id
    /\ \A i \in 1..Len(prefixKeys(modules[id])) :
          /\ hasKey(prefixes, prefixKeys(modules[id])[i])
          /\ id \in getIds(prefixes, prefixKeys(modules[id])[i])

\* C11: for a registered command C, deregister(C) followed by register(C)
\* with the same aliases and prefix leaves the alias table and the membership
\* of the prefix index as they were, and afterwards findCommand gives C for
\* each of its aliases and for no other name.
C11_ReregisterRestores ==
    [][\A id \in CmdIds :
          (registered(id) /\ Reregister(id)) =>
             /\ aliases' = aliases
             /\ membership(prefixes') = membership(prefixes)
             /\ \A name \in namesOf(modules[id]) :
                    findCommand(modules', aliases', name) = modules[id]
             /\ \A name \in DOMAIN aliases' :
                    aliases'[name] = id => name \in namesOf(modules[id])]_vars

\* "ban" has come back from the round trip with the alias that the
\* replacement rule derived, into the prefix entry it shares with "ping"
C11_Witness ==
    /\ regResult = [fault |-> NoFault, id |-> "ban", conflict |-> ""]
    /\ aliasReplacement
    /\ registered("ban") /\ registered("ping")
    /\ <<"a", "b">> \in DOMAIN aliases /\ aliases[<<"a", "b">>] = "ban"
    /\ <<"a", "-", "b">> \in DOMAIN aliases
    /\ \E i \in 1..Len(prefixes) : prefixes[i].ids = {"ban", "ping"}

(***************************************************************************)
(* The pipeline with gated commands                                        *)
(***************************************************************************)
MaxGateMsgs == 2

\* "adm" is for the owner, in a guild, with a permission check; "mod" has a
\* permission check and a cooldown, in a guild, and does not take edits;
\* "off" has been disabled
admCommand ==
    [baseCommand("adm", <<"a", "d", "m">>) EXCEPT
        !.ownerOnly = TRUE, !.channel = "guild", !.userPermissions = TRUE]

modCommand ==
    [baseCommand("mod", <<"m", "o", "d">>) EXCEPT
        !.channel = "guild", !.userPermissions = TRUE, !.cooldown = CoolTime,
        !.editable = FALSE]

offCommand == [baseCommand("off", <<"o", "f", "f">>) EXCEPT !.enabled = FALSE]

AdmText == <<"!", "a", "d", "m">>
ModText == <<"!", "m", "o", "d">>
OffText == <<"!", "o", "f", "f">>
NoText == <<"z">>

\* What the body of a command returns
Returns == {"", "pong"}

InitGate ==
    /\ LET reg == loadAll([modules |-> EmptyMap, aliases |-> EmptyMap, prefixes |-> <<>>],
                          <<admCommand, modCommand, offCommand, rxCommand>>, 1)
       IN /\ modules = reg.modules
          /\ aliases = reg.aliases
          /\ prefixes = reg.prefixes
    /\ aliasReplacement = FALSE
    /\ regResult = [fault |-> NoFault, id |-> "", conflict |-> ""]
    /\ handlerPrefix = [kind |-> "str", vals |-> <<<<"!">>>>]
    /\ allowMention = TRUE
    /\ parsed = NotParsed
    /\ IdleRun

\* A person or the owner in a guild, a person in a direct channel, a person
\* who edits, the client itself and another bot
GateMessage ==
    /\ Len(msgs) < MaxGateMsgs
    /\ \/ \E author \in {"u1", ownerID}, text \in {AdmText, ModText} :
             Deliver(author, "c1", text, FALSE, TRUE, FALSE)
       \/ \E text \in {OffText, HiText, NoText} :
             Deliver("u1", "c1", text, FALSE, TRUE, FALSE)
       \/ \E text \in {AdmText, ModText} : Deliver("u1", "d1", text, FALSE, FALSE, FALSE)
       \/ \E text \in {ModText, OffText} : Deliver("u1", "c1", text, TRUE, TRUE, FALSE)
       \/ Deliver(selfId, "c1", ModText, FALSE, TRUE, TRUE)
       \/ Deliver("b1", "c1", ModText, FALSE, TRUE, TRUE)

Gates == {"pass", "block"}

GateHandle ==
    \E t \in 1..Len(tasks), all \in Gates, pre \in Gates, perm \in Gates, inh \in Gates :
        Handle(t, all, pre, perm, inh)

GateBranch == \E t \in 1..Len(tasks), inh \in Gates : PostStage(t, "pass", inh)

GateArguments == \E t \in 1..Len(tasks) : ArgsStage(t, "pass", "pass")

GateExec == \E t \in 1..Len(tasks), ret \in Returns : runCommandSettled(t, "pass", ret)

GateJoin == \E t \in 1..Len(tasks) : Join(t)

NextGate ==
    \/ GateMessage
    \/ GateHandle
    \/ GateBranch
    \/ GateArguments
    \/ GateExec
    \/ GateJoin

SpecGate == InitGate /\ [][NextGate]_vars

\* The run of handle for the message ended with this one event and nothing
\* else happened for it
stoppedWith(t, e) ==
    /\ tasks'[t].ev = <<e>>
    /\ tasks'[t].pc = "done"
    /\ tasks'[t].cmd = ""
    /\ tasks'[t].result = "false"
    /\ Len(tasks') = Len(tasks)
    /\ cooldowns' = cooldowns
    /\ timers' = timers
    /\ prompts' = prompts

\* The reason of the first 'all' gate that blocks the message, "" when none
allReason(all, m) ==
    IF all = "block" THEN "custom"
    ELSE IF m.author = selfId THEN "client"
    ELSE IF m.bot THEN "bot"
    ELSE ""

\* C12: the 'all' gates run first: when a custom 'all' inhibitor, the
\* self-message check or the bot-author check blocks, the run emits one
\* blocked event and does nothing else for the message (no 'pre' gate, no
\* command, no branch, no cooldown entry); a 'pre' inhibitor blocks only a
\* message that passed the 'all' stage, with one blocked event and no command.
C12_AllGatesFirst ==
    [][\A t \in 1..Len(tasks), all \in Gates, pre \in Gates, perm \in Gates, inh \in Gates :
          Handle(t, all, pre, perm, inh) =>
             LET m == msgs[tasks[t].msg]
                 reason == allReason(all, m)
                 inPrompt == hasPrompt(prompts, m.channel, m.author)
             IN /\ reason /= "" => stoppedWith(t, E(MESSAGE_BLOCKED, "", reason))
                /\ (reason = "" /\ ~inPrompt /\ pre = "block") =>
                       stoppedWith(t, E(MESSAGE_BLOCKED, "", "custom"))
                /\ (reason = "" /\ ~inPrompt /\ pre = "pass") =>
                       \A i \in 1..Len(tasks'[t].ev) : tasks'[t].ev[i].e /= MESSAGE_BLOCKED]_vars

\* A bot's message and a person's message stopped by a custom inhibitor, each with the text of a command under cooldown
C12_Witness ==
    \E b, c \in 1..Len(tasks) :
        /\ msgs[tasks[b].msg].author = "b1"
        /\ tasks[b].ev = <<E(MESSAGE_BLOCKED, "", "bot")>>
        /\ msgs[tasks[c].msg] = [author |-> "u1", channel |-> "c1", content |-> ModText,
                                 createdTimestamp |-> 0, edited |-> FALSE, guild |-> TRUE,
                                 bot |-> FALSE]
        /\ tasks[c].ev = <<E(MESSAGE_BLOCKED, "", "custom")>>
        /\ cooldowns = EmptyMap

(***************************************************************************)
(* The 'post' gates                                                        *)
(***************************************************************************)
GateEvents == {COMMAND_BLOCKED, MISSING_PERMISSIONS, COOLDOWN}

gateEventsOf(th) == {i \in 1..Len(th.ev) : th.ev[i].e \in GateEvents}

\* The event of the first check before the cooldown that stops the command
\* for the message, NoGate when each lets it through
NoGate == E("", "", "")

firstEvent(th) == IF th.ev = <<>> THEN NoGate ELSE th.ev[1]

firstGate(m, command, perm, inh) ==
    IF command.ownerOnly /\ m.author /= ownerID THEN E(COMMAND_BLOCKED, command.id, "owner")
    ELSE IF command.channel = "guild" /\ ~m.guild THEN E(COMMAND_BLOCKED, command.id, "guild")
    ELSE IF command.channel = "dm" /\ m.guild THEN E(COMMAND_BLOCKED, command.id, "dm")
    ELSE IF command.userPermissions /\ perm = "block"
    THEN E(MISSING_PERMISSIONS, command.id, "user")
    ELSE IF inh = "block" THEN E(COMMAND_BLOCKED, command.id, "custom")
    ELSE NoGate

\* What the 'post' stage of the run t did in this step, by the order of the
\* checks: a block before the cooldown leaves the cooldown table alone
gatedInOrder(t, command, perm, inh) ==
    LET gate == firstGate(msgs[tasks[t].msg], command, perm, inh)
        after == tasks'[t]
    IN IF gate /= NoGate
       THEN /\ firstEvent(after) = gate
            /\ Cardinality(gateEventsOf(after)) = 1
            /\ after.pc = "done"
            /\ cooldowns' = cooldowns
            /\ timers' = timers
       ELSE \/ /\ after.pc = "args"
               /\ after.ev = <<>>
            \/ /\ firstEvent(after) = E(COOLDOWN, command.id, "")
               /\ Cardinality(gateEventsOf(after)) = 1
               /\ after.pc = "done"

\* C13: the 'post' gates run only for a resolved command, in the order
\* owner-only, channel restriction, permission check, custom post
\* inhibitors, cooldown: the first that blocks emits its event, nothing
\* later is evaluated (a command stopped by a gate uses up no cooldown use)
\* and the command is not started.
C13_PostGatesInOrder ==
    [][/\ \A t \in 1..Len(tasks), perm \in Gates, inh \in Gates :
             (Handle(t, "pass", "pass", perm, inh) /\ tasks'[t].cmd /= "") =>
                 gatedInOrder(t, modules[tasks'[t].cmd], perm, inh)
       /\ \A t \in 1..Len(tasks), inh \in Gates :
             PostStage(t, "pass", inh) => gatedInOrder(t, modules[tasks[t].cmd], "pass", inh)
       /\ \A t \in 1..Len(tasks') :
             /\ gateEventsOf(tasks'[t]) /= {} =>
                   /\ tasks'[t].cmd /= ""
                   /\ \A i \in 1..Len(tasks'[t].ev) : tasks'[t].ev[i].e /= COMMAND_STARTED
             /\ tasks'[t].cmd = "" => gateEventsOf(tasks'[t]) = {}]_vars

\* The owner-only check stopped "adm" in a direct channel before the channel
\* check, and a custom post inhibitor stopped "mod" before its cooldown
C13_Witness ==
    \E a, b \in 1..Len(tasks) :
        /\ ~msgs[tasks[a].msg].guild
        /\ firstEvent(tasks[a]) = E(COMMAND_BLOCKED, "adm", "owner")
        /\ msgs[tasks[b].msg].author = "u1"
        /\ firstEvent(tasks[b]) = E(COMMAND_BLOCKED, "mod", "custom")
        /\ cooldowns = EmptyMap

(***************************************************************************)
(* Disabled commands, edits, and messages that invoke nothing              *)
(***************************************************************************)
\* What parseCommand finds for the message of the run
resolvedFor(t) ==
    parseCommand(registry, handlerPrefix, allowMention, msgs[tasks[t].msg].content).command

\* The run passes the 'all' and 'pre' stages in this step
passesEarlyGates(t, perm, inh) ==
    /\ Handle(t, "pass", "pass", perm, inh)
    /\ allReason("pass", msgs[tasks[t].msg]) = ""
    /\ ~hasPrompt(prompts, msgs[tasks[t].msg].channel, msgs[tasks[t].msg].author)

\* C14: when the command resolved for a message is disabled, the run emits
\* the command-disabled event and stops: no post gate, no cooldown entry, no
\* argument parsing and no execution.
C14_DisabledCommandStops ==
    [][\A t \in 1..Len(tasks), perm \in Gates, inh \in Gates :
          (passesEarlyGates(t, perm, inh) /\ resolvedFor(t).id /= ""
             /\ ~modules[resolvedFor(t).id].enabled) =>
                /\ tasks'[t].ev = <<E(COMMAND_DISABLED, resolvedFor(t).id, "")>>
                /\ tasks'[t].pc = "done"
                /\ cooldowns' = cooldowns
                /\ timers' = timers]_vars

\* C15: when the message is an edit and the resolved command is not
\* editable, the run stops silently: no gate and no cooldown is evaluated,
\* the command is not executed and no event at all is emitted for the message.
C15_UneditableEditIsSilent ==
    [][\A t \in 1..Len(tasks), perm \in Gates, inh \in Gates :
          (passesEarlyGates(t, perm, inh) /\ msgs[tasks[t].msg].edited
             /\ resolvedFor(t).id /= "" /\ ~resolvedFor(t).editable) =>
                /\ tasks'[t].ev = <<>>
                /\ tasks'[t].pc = "done"
                /\ Len(tasks') = Len(tasks)
                /\ cooldowns' = cooldowns
                /\ timers' = timers]_vars

named(th, e) == \E i \in 1..Len(th.ev) : th.ev[i].e = e

\* Neither the prefixes and aliases nor a regular expression nor a condition
\* select a command for the message of the run
nothingMatched(t) ==
    /\ resolvedFor(t).id = ""
    /\ regexMatches(msgs[tasks[t].msg]) = {}
    /\ conditionMatches(msgs[tasks[t].msg]) = {}

\* C16: a run that got past the 'all' and 'pre' stages emits the
\* invalid-message event exactly when no command was resolved and no trigger
\* matched; a message whose command was blocked by a post gate, put on
\* cooldown or cancelled is not reported as invalid as well.
C16_InvalidOnlyWhenNothingMatched ==
    \A t \in 1..Len(tasks) :
        (/\ tasks[t].kind = "top"
         /\ tasks[t].pc = "done"
         /\ ~named(tasks[t], MESSAGE_BLOCKED)
         /\ ~named(tasks[t], IN_PROMPT)
         /\ ~named(tasks[t], ERROR)) =>
            (named(tasks[t], MESSAGE_INVALID) <=> nothingMatched(t))

(***************************************************************************)
(* The events around the body of a command                                 *)
(***************************************************************************)
eventsNamed(th, e) == {i \in 1..Len(th.ev) : th.ev[i].e = e}

\* C17: command started is emitted before the body of the command is
\* called, and command finished only when the body has settled, with the
\* value the body returned; a run never has a command finished without an
\* earlier command started for the same message and command.
C17_StartedBeforeFinished ==
    [][/\ \A t \in 1..Len(tasks), ret \in Returns :
             runCommandSettled(t, "pass", ret) =>
                /\ tasks'[t].ev = Append(tasks[t].ev, E(COMMAND_FINISHED, tasks[t].cmd, ret))
                /\ eventsNamed(tasks[t], COMMAND_FINISHED) = {}
       /\ \A t \in 1..Len(tasks') :
             LET th == tasks'[t]
             IN /\ th.pc = "exec" =>
                      /\ th.ev /= <<>>
                      /\ th.ev[Len(th.ev)] = E(COMMAND_STARTED, th.cmd, "")
                /\ \A i \in eventsNamed(th, COMMAND_FINISHED) :
                      \E j \in 1..(i - 1) : th.ev[j] = E(COMMAND_STARTED, th.ev[i].c, "")
                /\ \A j \in eventsNamed(th, COMMAND_STARTED) :
                      \/ th.pc = "exec" /\ j = Len(th.ev)
                      \/ j < Len(th.ev) /\ th.ev[j + 1].e \in {COMMAND_FINISHED, ERROR}
                      \/ th.result = "rejected"]_vars

\* One command has finished with the value its body returned while the body
\* of another, started, has not settled
C17_Witness ==
    \E a, b \in 1..Len(tasks) :
        /\ tasks[a].ev = <<E(COMMAND_STARTED, "mod", ""), E(COMMAND_FINISHED, "mod", "pong")>>
        /\ tasks[b].pc = "exec"
        /\ tasks[b].ev = <<E(COMMAND_STARTED, "adm", "")>>

(***************************************************************************)
(* Breakout: a reply to a prompt that is itself a command                  *)
(***************************************************************************)
\* The reply that the prompt of the run t holds invokes a command, and the
\* prompt allows breakout
breaksOut(t) ==
    /\ tasks[t].pc = "input"
    /\ promptOptionsOf(modules[tasks[t].cmd], modules[tasks[t].cmd].args[1]).breakout
    /\ parseCommand(registry, handlerPrefix, allowMention,
                    msgs[tasks[t].input].content).command.id /= ""

\* C18: with breakout, a reply that resolves to a command aborts the prompt
\* and is not taken as argument text; the session of the prompt is gone
\* before the reply is handled again from stage 'all' as a message of its
\* own, so that run is not rejected as in-prompt by it (only the session of
\* another run can reject it); the prompting command is not executed.
C18_BreakoutRedispatches ==
    [][/\ \A t \in 1..Len(tasks), pick \in {"pass", "block"} :
             (breaksOut(t) /\ ProcessInput(t, pick)) =>
                /\ tasks' = Append([tasks EXCEPT ![t] = tasks'[t]],
                                   newTask(tasks[t].input, "retry", t, "all", ""))
                /\ tasks'[t].pc = "nested"
                /\ tasks'[t].values = tasks[t].values
                /\ tasks'[t].parsedValue = ""
                /\ tasks'[t].ev = tasks[t].ev
                /\ ~hasPrompt(prompts', channelOf(t), authorOf(t))
       /\ \A k \in 1..Len(tasks') :
             tasks'[k].kind = "retry" =>
                /\ ~named(tasks'[tasks'[k].parent], COMMAND_STARTED)
                /\ tasks'[k].pc = "done" => tasks'[tasks'[k].parent].pc = "done"
       /\ \A k \in 1..Len(tasks) :
             (tasks[k].kind = "retry" /\ ~named(tasks[k], IN_PROMPT)
                /\ named(tasks'[k], IN_PROMPT)) =>
                   \E s \in 1..Len(tasks) :
                       /\ s /= tasks[k].parent
                       /\ prompting(s)
                       /\ channelOf(s) = channelOf(k)
                       /\ authorOf(s) = authorOf(k)]_vars

\* The reply "!ping" to the prompt of "ask" ran "ping" in a run of its own,
\* and "ask" ended without having been started
C18_Witness ==
    \E k \in 1..Len(tasks) :
        /\ tasks[k].kind = "retry"
        /\ tasks[k].ev = <<E(COMMAND_STARTED, "ping", ""), E(COMMAND_FINISHED, "ping", "")>>
        /\ tasks[tasks[k].parent].cmd = "ask"
        /\ tasks[tasks[k].parent].pc = "done"
        /\ ~named(tasks[tasks[k].parent], COMMAND_STARTED)
        /\ msgs[tasks[k].msg].content = PingText

(***************************************************************************)
(* The pipeline with a prompt that collects several values                 *)
(***************************************************************************)
MaxInfMsgs == 4

StopText == <<"S", "t", "o", "p">>

InitInf ==
    /\ \E retries \in 0..MaxRetries :
          LET reg == loadAll([modules |-> EmptyMap, aliases |-> EmptyMap, prefixes |-> <<>>],
                             <<askCommand(retries, TRUE)>>, 1)
          IN /\ modules = reg.modules
             /\ aliases = reg.aliases
             /\ prefixes = reg.prefixes
    /\ aliasReplacement = FALSE
    /\ regResult = [fault |-> NoFault, id |-> "", conflict |-> ""]
    /\ handlerPrefix = [kind |-> "str", vals |-> <<<<"!">>>>]
    /\ allowMention = TRUE
    /\ parsed = NotParsed
    /\ IdleRun

\* The actor invokes "ask" and answers its prompt with the stop word or with
\* a text that the caster takes or refuses
InfMessage ==
    /\ Len(msgs) < MaxInfMsgs
    /\ \/ ~waiting /\ Arrive("u1", "c1", AskText)
       \/ waiting /\ \E text \in {StopText, <<"o", "k">>} : Arrive("u1", "c1", text)

InfHandle == \E t \in 1..Len(tasks) : Handle(t, "pass", "pass", "pass", "pass")

InfArguments == \E t \in 1..Len(tasks), pick \in {"pass", "block"} : ArgsStage(t, "pass", pick)

InfReply == \E t \in 1..Len(tasks), pick \in {"pass", "block"} : ProcessInput(t, pick)

InfNoReply == \E t \in 1..Len(tasks) : PromptTimeout(t)

InfExec == \E t \in 1..Len(tasks) : ExecSettle(t, "pass")

NextInf ==
    \/ InfMessage
    \/ InfHandle
    \/ InfArguments
    \/ InfReply
    \/ InfNoReply
    \/ InfExec

SpecInf == InitInf /\ [][NextInf]_vars

\* The reply held by the prompt of the run t is the stop word of a prompt
\* in infinite mode
stopsAt(t) ==
    /\ tasks[t].pc = "input"
    /\ promptOptionsOf(modules[tasks[t].cmd], modules[tasks[t].cmd].args[1]).infinite
    /\ modules[tasks[t].cmd].args[1].match = "separate" => tasks[t].add = 0
    /\ isStopWord(msgs[tasks[t].input].content,
                  promptOptionsOf(modules[tasks[t].cmd], modules[tasks[t].cmd].args[1]))

\* C20: in infinite mode the stop word ends the prompt only when a value has
\* been collected; with none collected the actor is asked again and the
\* retry count stays as it was, so as many invalid replies are tolerated
\* after the stop word as before it.
C20_StopWordKeepsRetries ==
    [][\A t \in 1..Len(tasks), pick \in {"pass", "block"} :
          (stopsAt(t) /\ ProcessInput(t, pick)) =>
             IF tasks[t].values = <<>>
             THEN /\ tasks'[t].pc = "await"
                  /\ tasks'[t].rc = tasks[t].rc
             ELSE /\ tasks'[t].pc = "exec"
                  /\ tasks'[t].values = tasks[t].values]_vars

(***************************************************************************)
(* Flag arguments: Command#parse for an argument matched as a flag         *)
(***************************************************************************)
MaxWords == 3

\* content.match(/\S+\s*/g) || []: the words, each with the blanks after it
RECURSIVE splitText(_)
splitText(content) ==
    IF searchNonSpace(content) = -1 THEN <<>>
    ELSE LET rest == SubSeq(content, searchNonSpace(content) + 1, Len(content))
             blanks == {i \in 1..Len(rest) : isSpace(rest[i])}
             wordEnd == IF blanks = {} THEN Len(rest)
                        ELSE (CHOOSE i \in blanks : \A j \in blanks : i <= j) - 1
             next == searchNonSpace(SubSeq(rest, wordEnd + 1, Len(rest)))
             tokenEnd == IF next = -1 THEN Len(rest) ELSE wordEnd + next
         IN <<SubSeq(rest, 1, tokenEnd)>> \o splitText(SubSeq(rest, tokenEnd + 1, Len(rest)))

\* The loop of parseFuncs[FLAG] over the words, from the last to the first
RECURSIVE flagLoopExactCase(_, _, _, _)
flagLoopExactCase(words, i, arg, flagFound) ==
    IF i = 0 THEN flagFound
    ELSE LET word == trim(words[i])
         IN IF arg.prefix.isArray
            THEN flagLoopExactCase(words, i - 1, arg,
                    \/ flagFound
                    \/ \E k \in 1..Len(arg.prefix.vals) :
                          word = toLowerCase(arg.prefix.vals[k]))
            ELSE IF word = toLowerCase(arg.prefix.vals[1]) THEN TRUE
                 ELSE flagLoopExactCase(words, i - 1, arg, flagFound)

RECURSIVE flagLoop(_, _, _, _)
flagLoop(words, i, arg, flagFound) ==
    IF i = 0 THEN flagFound
    ELSE LET word == toLowerCase(trim(words[i]))
         IN IF arg.prefix.isArray
            THEN flagLoop(words, i - 1, arg,
                    \/ flagFound
                    \/ \E k \in 1..Len(arg.prefix.vals) :
                          word = toLowerCase(arg.prefix.vals[k]))
            ELSE IF word = toLowerCase(arg.prefix.vals[1]) THEN TRUE
                 ELSE flagLoop(words, i - 1, arg, flagFound)

\* null, as the default of an argument
Null == "null"

\* parseFuncs[FLAG](arg)(): the value of the flag argument
parseFlag(words, arg) ==
    LET flagFound == flagLoop(words, Len(words), arg, FALSE)
    IN IF arg.default = Null THEN flagFound ELSE ~flagFound

\* Command#parse for a command whose one argument is a flag: the processed
\* arguments by id
commandParse(command, content) ==
    LET words == splitText(content)
        arg == command.args[1]
    IN [id |-> arg.id, value |-> parseFlag(words, arg)]

\* "flg" takes one flag, with one marker or a list of markers
flagCommand(prefix, default) ==
    [baseCommand("flg", <<"f", "l", "g">>) EXCEPT
        !.args = <<[id |-> "on", match |-> "flag", prefix |-> prefix,
                    default |-> default]>>]

FlagMarkers ==
    {[isArray |-> FALSE, vals |-> <<<<"-", "A">>>>],
     [isArray |-> TRUE, vals |-> <<<<"-", "a">>, <<"-", "-", "B">>>>]}

FlagWords == {<<"-", "a">>, <<"-", "A">>, <<"-", "a", "b">>, <<"-", "-", "b">>, <<"x">>}

RECURSIVE joinWords(_, _)
joinWords(ws, sep) ==
    IF ws = <<>> THEN <<>>
    ELSE IF Len(ws) = 1 THEN ws[1]
    ELSE ws[1] \o sep \o joinWords(Tail(ws), sep)

\* Up to MaxWords words, one or two blanks apart, after no or one blank
FlagTexts ==
    {lead \o joinWords(ws, sep) :
        lead \in {<<>>, <<" ">>}, sep \in {<<" ">>, <<" ", " ">>},
        ws \in UNION {[1..n -> FlagWords] : n \in 0..MaxWords}}

InitFlag ==
    /\ \E prefix \in FlagMarkers, default \in {Null, "false"} :
          LET reg == loadAll([modules |-> EmptyMap, aliases |-> EmptyMap, prefixes |-> <<>>],
                             <<flagCommand(prefix, default)>>, 1)
          IN /\ modules = reg.modules
             /\ aliases = reg.aliases
             /\ prefixes = reg.prefixes
    /\ aliasReplacement = FALSE
    /\ regResult = [fault |-> NoFault, id |-> "", conflict |-> ""]
    /\ handlerPrefix = [kind |-> "str", vals |-> <<<<"!">>>>]
    /\ allowMention = TRUE
    /\ parsed = NotParsed
    /\ IdleRun

ParseFlags(content) ==
    /\ parsed = NotParsed
    /\ parsed' = [text |-> content, result |-> commandParse(modules["flg"], content)]
    /\ UNCHANGED <<regVars, cfgVars, runCfgVars, runVars>>

NextFlag == \E content \in FlagTexts : ParseFlags(content)

SpecFlag == InitFlag /\ [][NextFlag]_vars

\* The tokens of a text: its maximal runs of characters that are not blanks
tokensOf(s) ==
    {SubSeq(s, ij[1], ij[2]) : ij \in
        {ij \in (1..Len(s)) \X (1..Len(s)) :
            /\ ij[1] <= ij[2]
            /\ \A k \in ij[1]..ij[2] : ~isSpace(s[k])
            /\ ij[1] = 1 \/ isSpace(s[ij[1] - 1])
            /\ ij[2] = Len(s) \/ isSpace(s[ij[2] + 1])}}

markersOf(arg) == {arg.prefix.vals[k] : k \in 1..Len(arg.prefix.vals)}

\* Some token of the text is a marker of the flag, whatever its case
marked(s, arg) ==
    \E token \in tokensOf(s), marker \in markersOf(arg) :
        toLowerCase(token) = toLowerCase(marker)

\* C19: the value of a flag argument without a default is true exactly when
\* some token of the text equals one of its markers, case-insensitively and
\* wherever the token stands; with a default that is not null the value is
\* the negation.
C19_FlagIffMarkerPresent ==
    parsed /= NotParsed =>
        LET arg == modules["flg"].args[1]
        IN parsed.result.value =
              (IF arg.default = Null THEN marked(parsed.text, arg)
               ELSE ~marked(parsed.text, arg))

\* A marker in another case, after two other words and two blanks, turns
\* the flag on
C19_Witness ==
    /\ parsed /= NotParsed
    /\ parsed.text = <<"x", " ", " ", "-", "a", "b", " ", " ", "-", "-", "b">>
    /\ modules["flg"].args[1].prefix.isArray
    /\ modules["flg"].args[1].default = Null
    /\ parsed.result.value = TRUE

(***************************************************************************)
(* The accumulator of a prompt in infinite mode                            *)
(***************************************************************************)
promptOf(t) == promptOptionsOf(modules[tasks[t].cmd], modules[tasks[t].cmd].args[1])

\* The text is the stop word of the prompt, in whatever case
saysStop(content, opts) == toLowerCase(content) = toLowerCase(opts.stopWord)

infiniteAt(t) ==
    /\ tasks[t].pc = "input"
    /\ promptOf(t).infinite
    /\ modules[tasks[t].cmd].args[1].match = "separate" => tasks[t].add = 0

\* The prompt of the run t holds a reply that is neither a command nor the
\* cancel word nor the stop word, in infinite mode
repliesAt(t) ==
    /\ infiniteAt(t)
    /\ ~breaksOut(t)
    /\ ~isCancelWord(msgs[tasks[t].input].content, promptOf(t))
    /\ ~saysStop(msgs[tasks[t].input].content, promptOf(t))

\* The values of a run are replies of its actor in its channel, in the order
\* in which they came, and none is the stop word
inReplyOrder(th) ==
    /\ \A i \in 1..Len(th.values) :
          /\ th.values[i] > th.msg
          /\ msgs'[th.values[i]].author = msgs'[th.msg].author
          /\ msgs'[th.values[i]].channel = msgs'[th.msg].channel
          /\ ~saysStop(msgs'[th.values[i]].content, HandlerDefaultPrompt)
    /\ \A i, j \in 1..Len(th.values) : i < j => th.values[i] < th.values[j]

\* C21: in infinite mode every reply that the caster accepts is appended to
\* the accumulator and the retry count starts again at 1; prompting goes on
\* until the accumulator has reached the limit or the stop word comes; the
\* command gets the accepted replies in reply order, at least one and (for a
\* limit of 1 or more) no more than the limit.
C21_InfiniteAccumulates ==
    [][/\ \A t \in 1..Len(tasks) :
             (repliesAt(t) /\ ProcessInput(t, "pass")) =>
                /\ tasks'[t].values = Append(tasks[t].values, tasks[t].input)
                /\ IF Len(tasks'[t].values) < promptOf(t).limit
                   THEN tasks'[t].pc = "await" /\ tasks'[t].rc = 1
                   ELSE tasks'[t].pc = "exec"
       /\ \A t \in 1..Len(tasks), pick \in {"pass", "block"} :
             (infiniteAt(t) /\ saysStop(msgs[tasks[t].input].content, promptOf(t))
                /\ tasks[t].values /= <<>> /\ ProcessInput(t, pick)) =>
                /\ tasks'[t].values = tasks[t].values
                /\ tasks'[t].pc = "exec"
       /\ \A t \in 1..Len(tasks') :
             /\ inReplyOrder(tasks'[t])
             /\ (tasks'[t].pc = "exec" /\ sent(tasks'[t], "start")) =>
                   /\ tasks'[t].values /= <<>>
                   /\ Len(tasks'[t].values) <= modules[tasks'[t].cmd].args[1].prompt.opts.limit]_vars

\* The second accepted reply filled the accumulator up to its limit
C21_Witness ==
    \E t \in 1..Len(tasks) :
        /\ tasks[t].pc = "exec"
        /\ tasks[t].values = <<2, 3>>
        /\ modules[tasks[t].cmd].args[1].prompt.opts.limit = 2
        /\ sent(tasks[t], "start")

(***************************************************************************)
(* Prompt options at the three levels: handler, command, argument          *)
(***************************************************************************)
MaxOptMsgs == 3

\* "ask" with prompt defaults of its own and with the options of its argument
optCommand(commandLevel, argumentLevel) ==
    [baseCommand("ask", <<"a", "s", "k">>) EXCEPT
        !.defaultPrompt = commandLevel,
        !.args = <<[id |-> "what", type |-> [kind |-> "fn", entries |-> <<>>],
                    match |-> "phrase",
                    prompt |-> [has |-> TRUE, opts |-> argumentLevel]]>>]

CommandLevels ==
    {EmptyMap, [optional |-> TRUE], [optional |-> FALSE], [retries |-> 0]}

ArgumentLevels ==
    {[start |-> TRUE], [start |-> TRUE, optional |-> TRUE],
     [start |-> TRUE, optional |-> FALSE], [start |-> TRUE, retries |-> 1]}

InitOpt ==
    /\ \E commandLevel \in CommandLevels, argumentLevel \in ArgumentLevels :
          LET reg == loadAll([modules |-> EmptyMap, aliases |-> EmptyMap, prefixes |-> <<>>],
                             <<optCommand(commandLevel, argumentLevel)>>, 1)
          IN /\ modules = reg.modules
             /\ aliases = reg.aliases
             /\ prefixes = reg.prefixes
    /\ aliasReplacement = FALSE
    /\ regResult = [fault |-> NoFault, id |-> "", conflict |-> ""]
    /\ handlerPrefix = [kind |-> "str", vals |-> <<<<"!">>>>]
    /\ allowMention = TRUE
    /\ parsed = NotParsed
    /\ \E handlerOptional \in BOOLEAN :
          defaultPrompt = [HandlerDefaultPrompt EXCEPT !.optional = handlerOptional]
    /\ errorListener = TRUE
    /\ msgs = <<>>
    /\ tasks = <<>>
    /\ prompts = EmptyMap
    /\ cooldowns = EmptyMap
    /\ timers = {}
    /\ now = 0

OptMessage ==
    /\ Len(msgs) < MaxOptMsgs
    /\ \/ ~waiting /\ \E text \in {AskText, AskText \o <<" ", "x">>} : Arrive("u1", "c1", text)
       \/ waiting /\ Arrive("u1", "c1", <<"o", "k">>)

OptHandle == \E t \in 1..Len(tasks) : Handle(t, "pass", "pass", "pass", "pass")

OptArguments == \E t \in 1..Len(tasks), pick \in {"pass", "block"} : ArgsStage(t, "pass", pick)

OptReply == \E t \in 1..Len(tasks), pick \in {"pass", "block"} : ProcessInput(t, pick)

OptNoReply == \E t \in 1..Len(tasks) : PromptTimeout(t)

OptExec == \E t \in 1..Len(tasks) : ExecSettle(t, "pass")

NextOpt ==
    \/ OptMessage
    \/ OptHandle
    \/ OptArguments
    \/ OptReply
    \/ OptNoReply
    \/ OptExec

SpecOpt == InitOpt /\ [][NextOpt]_vars

\* The value of an option for the argument of the run t: that of the
\* argument when it sets one, else that of the command, else the handler's
effective(t, option) ==
    LET command == modules[tasks[t].cmd]
        argumentLevel == command.args[1].prompt.opts
    IN IF option \in DOMAIN argumentLevel THEN argumentLevel[option]
       ELSE IF option \in DOMAIN command.defaultPrompt THEN command.defaultPrompt[option]
       ELSE defaultPrompt[option]

\* C22: an option set for the argument wins over the command's default for
\* it, which wins over the handler's: an argument that is optional by this
\* order is not prompted for when its phrase is missing and one that is not
\* optional is; a refused reply is asked for again while the retry count is
\* within the retries that this order gives.
C22_ArgumentOverridesDefaults ==
    [][/\ \A t \in 1..Len(tasks), pick \in {"pass", "block"} :
             (ArgsStage(t, "pass", pick) /\ trim(phraseOf(tasks[t].content)) = <<>>) =>
                IF effective(t, "optional")
                THEN tasks'[t].pc = "exec" /\ ~named(tasks'[t], SEND)
                ELSE pick = "block" => tasks'[t].pc = "await"
       /\ \A t \in 1..Len(tasks) :
             (tasks[t].pc = "input" /\ ~breaksOut(t)
                /\ ~isCancelWord(msgs[tasks[t].input].content, promptOf(t))
                /\ ProcessInput(t, "block")) =>
                   IF tasks[t].rc <= effective(t, "retries")
                   THEN tasks'[t].pc = "await"
                   ELSE tasks'[t].pc = "done"]_vars

(***************************************************************************)
(* The two indexes of the registry after deregister                        *)
(***************************************************************************)
\* The keys that a loaded command declares
declaredKeys(id) ==
    {prefixKeys(modules[id])[i] : i \in 1..Len(prefixKeys(modules[id]))}

\* C23: after deregister(C) no alias maps to C and the id of C is in no set
\* of the prefix index; in every state an id is in the prefix index under
\* exactly the keys that the loaded command of that id declares, also when
\* commands share an overwrite prefix and one of them is deregistered.
C23_DeregisterClearsIndexes ==
    [][\A id \in CmdIds :
          (registered(id) /\ Deregister(id)) =>
             /\ \A name \in DOMAIN aliases' : aliases'[name] /= id
             /\ \A i \in 1..Len(prefixes') : id \notin prefixes'[i].ids
             /\ \A other \in CmdIds, i \in 1..Len(prefixes') :
                   other \in prefixes'[i].ids <=>
                      /\ other \in DOMAIN modules'
                      /\ prefixes'[i].key \in declaredKeys(other)']_vars

(***************************************************************************)
(* The order of the prefix index: three commands declare prefix            *)
(* overwrites of every kind and are registered and deregistered.           *)
(***************************************************************************)
SortIds == {"ban", "ping", "kick"}

\* Command#prefix: a string (the empty one included), a list of strings or a
\* function
SortPrefixes ==
    {[kind |-> "fn", vals |-> <<<<"?">>>>],
     str(<<>>), str(<<"!", "!">>), str(<<"?", "?">>),
     [kind |-> "arr", vals |-> <<<<"!">>, <<"!", "!">>>>],
     [kind |-> "arr", vals |-> <<<<>>, <<"!", "!">>>>]}

sortAlias(id) ==
    CASE id = "ban" -> <<"b">> [] id = "ping" -> <<"p">> [] OTHER -> <<"k">>

InitSort ==
    /\ modules = EmptyMap
    /\ aliases = EmptyMap
    /\ prefixes = <<>>
    /\ aliasReplacement = FALSE
    /\ regResult = [fault |-> NoFault, id |-> "", conflict |-> ""]
    /\ handlerPrefix = [kind |-> "str", vals |-> <<<<"!">>>>]
    /\ allowMention = TRUE
    /\ parsed = NotParsed
    /\ IdleRun

SortRegister ==
    \E id \in SortIds, p \in SortPrefixes :
        Register([aliases |-> <<sortAlias(id)>>, prefix |-> p, id |-> id])

SortDeregister == \E id \in SortIds : Deregister(id)

NextSort == SortRegister \/ SortDeregister

SpecSort == InitSort /\ [][NextSort]_vars

\* The rank of a key in the iteration: non-empty strings, functions, ''
keyClass(key) == IF key.fn THEN 1 ELSE IF key.s = <<>> THEN 2 ELSE 0

\* a is a proper leading substring of b
leads(a, b) == Len(a) < Len(b) /\ SubSeq(b, 1, Len(a)) = a

\* C24: after any sequence of register and deregister calls the prefix index
\* iterates the non-empty string prefixes by descending length, equal lengths
\* in lexical order, then the function prefixes, then the empty prefix; a
\* prefix is therefore tried before every prefix that is a leading substring
\* of it.
C24_IndexStaysSorted ==
    \A i \in 1..Len(prefixes), j \in 1..Len(prefixes) :
        i < j =>
          /\ keyClass(prefixes[i].key) <= keyClass(prefixes[j].key)
          /\ (keyClass(prefixes[i].key) = 0 /\ keyClass(prefixes[j].key) = 0) =>
                \/ Len(prefixes[i].key.s) > Len(prefixes[j].key.s)
                \/ /\ Len(prefixes[i].key.s) = Len(prefixes[j].key.s)
                   /\ localeCompare(prefixes[i].key.s, prefixes[j].key.s) < 0
          /\ (~prefixes[i].key.fn /\ ~prefixes[j].key.fn) =>
                ~leads(prefixes[i].key.s, prefixes[j].key.s)

\* "!!", "!", a function and '' are in the index in that order, and "!!"
\* holds two loaded commands: the second came in without a sort
C24_Witness ==
    /\ Len(prefixes) = 4
    /\ [i \in 1..4 |-> keyClass(prefixes[i].key)] = <<0, 0, 1, 2>>
    /\ [i \in 1..2 |-> prefixes[i].key.s] = <<<<"!", "!">>, <<"!">>>>
    /\ Cardinality(prefixes[1].ids) = 2
    /\ prefixes[1].ids \subseteq DOMAIN modules
    /\ regResult.fault = NoFault

(***************************************************************************)
(* The life of a cooldown entry                                            *)
(***************************************************************************)
\* The actor has an entry for the command in the map cds
liveEntry(cds, user, c) ==
    /\ user \in DOMAIN cds
    /\ c \in DOMAIN cds[user]
    /\ ~cds[user][c].isNull

\* C25: the cooldown entry of (actor, command) is made by the first use in a
\* window and destroyed when its timer fires; when the timer fires and no
\* entry of another command remains for the actor, the actor's record leaves
\* the cooldown map, so that the map is empty once every timer has fired.
C25_CooldownMapEmpties ==
    /\ [][\A tm \in timers :
            TimerFire(tm) =>
              /\ liveEntry(cooldowns, tm.user, tm.cmd)
              /\ ~liveEntry(cooldowns', tm.user, tm.cmd)
              /\ (\A c \in DOMAIN modules : ~liveEntry(cooldowns', tm.user, c)) =>
                    tm.user \notin DOMAIN cooldowns']_vars
    /\ [](timers = {} => cooldowns = EmptyMap)

(***************************************************************************)
(* The inhibitor handler with testMessage and testCommand, and a handle    *)
(* that awaits the two tests.  modules holds the loaded inhibitors.        *)
(***************************************************************************)
MaxInhMsgs == 1

InhIds == <<"i1", "i2">>

\* What inhibitor.exec does with a message: it returns a falsy or a truthy
\* value, throws an Error, or returns a promise that resolves, rejects with
\* something that is no Error, or rejects with an Error
Behaviours == {"falsy", "truthy", "throws", "resolves", "rejectsReason", "rejectsError"}

inhibitor(id, reason, preMessage, enabled) ==
    [id |-> id, reason |-> reason, preMessage |-> preMessage, enabled |-> enabled]

\* The promise that a test returns: resolved, rejected with a reason or with
\* an Error, or pending for ever
NotRun == [state |-> "none", error |-> FALSE, reason |-> ""]
Resolved == [state |-> "resolved", error |-> FALSE, reason |-> ""]
Blocked(reason) == [state |-> "rejected", error |-> FALSE, reason |-> reason]
Faulted == [state |-> "rejected", error |-> TRUE, reason |-> ""]
Pending == [state |-> "pending", error |-> TRUE, reason |-> ""]

\* this.inhibitors.filter(i => i.preMessage === pre && i.enabled), in the
\* order of the collection
stageOf(inhibitors, pre) ==
    SelectSeq(InhIds, LAMBDA id : /\ id \in DOMAIN inhibitors
                                  /\ inhibitors[id].preMessage = pre
                                  /\ inhibitors[id].enabled)

\* The body of the promise of testMessage and testCommand, for the inhibitors
\* ids of the stage: the outcomes that the returned promise can have.  A
\* throw of exec leaves the executor and rejects the promise; a promise made
\* by Promise.reject is rejected before any promise of an inhibitor settles;
\* an Error that Promise.all rejects with is thrown again inside the catch
\* callback, where nothing settles the returned promise.
testStage(inhibitors, ids, does) ==
    LET at(b) == {i \in 1..Len(ids) : does[ids[i]] = b}
        first(S) == CHOOSE i \in S : \A j \in S : i <= j
    IN IF at("throws") /= {} THEN {Faulted}
       ELSE IF at("truthy") /= {}
       THEN {Blocked(inhibitors[ids[first(at("truthy"))]].reason)}
       ELSE IF at("rejectsReason") \cup at("rejectsError") = {} THEN {Resolved}
       ELSE {Blocked(inhibitors[ids[i]].reason) : i \in at("rejectsReason")}
            \cup {Pending : i \in at("rejectsError")}

testMessage(inhibitors, does) == testStage(inhibitors, stageOf(inhibitors, TRUE), does)

testCommand(inhibitors, does) == testStage(inhibitors, stageOf(inhibitors, FALSE), does)

InitInh ==
    /\ \E e1 \in BOOLEAN, e2 \in BOOLEAN, p2 \in BOOLEAN :
          modules = ("i1" :> inhibitor("i1", "r1", TRUE, e1))
                    @@ ("i2" :> inhibitor("i2", "r2", p2, e2))
    /\ aliases = EmptyMap
    /\ prefixes = <<>>
    /\ aliasReplacement = FALSE
    /\ regResult = [fault |-> NoFault, id |-> "", conflict |-> ""]
    /\ handlerPrefix = [kind |-> "str", vals |-> <<<<"!">>>>]
    /\ allowMention = TRUE
    /\ parsed = NotParsed
    /\ defaultPrompt = HandlerDefaultPrompt
    /\ errorListener \in BOOLEAN
    /\ msgs = <<>>
    /\ tasks = <<>>
    /\ prompts = EmptyMap
    /\ cooldowns = EmptyMap
    /\ timers = {}
    /\ now = 0

inhUnchanged == <<regVars, cfgVars, parsed, runCfgVars, prompts, cooldowns, timers, now>>

\* A message arrives and handle starts; does is what each inhibitor will do
\* with this message
InhMessage ==
    /\ Len(msgs) < MaxInhMsgs
    /\ \E does \in [DOMAIN modules -> Behaviours] :
          /\ msgs' = Append(msgs, [author |-> "u1", content |-> <<"!", "p">>])
          /\ tasks' = Append(tasks, [msg |-> Len(msgs) + 1, pc |-> "pre", does |-> does,
                                     pre |-> NotRun, post |-> NotRun,
                                     ev |-> <<>>, result |-> ""])
    /\ UNCHANGED inhUnchanged

\* handle calls the test of the message stage
InhTestMessage(t) ==
    /\ tasks[t].pc = "pre"
    /\ \E o \in testMessage(modules, tasks[t].does) :
          tasks' = [tasks EXCEPT ![t].pre = o, ![t].pc = "preSettled"]
    /\ UNCHANGED <<msgs, inhUnchanged>>

\* The callbacks of handle on the promise of a test: then goes on, catch
\* hands an Error to _handleError and emits a reason as a blocked event
afterTest(th, o, next, blockedEvent, c, listener) ==
    IF o.state = "resolved" THEN [th EXCEPT !.pc = next]
    ELSE IF o.error
    THEN IF listener
         THEN [emit(th, ERROR, c, "") EXCEPT !.pc = "done", !.result = "resolved"]
         ELSE [th EXCEPT !.pc = "done", !.result = "rejected"]
    ELSE [emit(th, blockedEvent, c, o.reason) EXCEPT !.pc = "done", !.result = "resolved"]

InhAfterMessageTest(t) ==
    /\ tasks[t].pc = "preSettled"
    /\ tasks[t].pre.state /= "pending"
    /\ tasks' = [tasks EXCEPT ![t] =
                    afterTest(tasks[t], tasks[t].pre, "post", MESSAGE_BLOCKED, "", errorListener)]
    /\ UNCHANGED <<msgs, inhUnchanged>>

\* The command is resolved and handle calls the test of the command stage
InhTestCommand(t) ==
    /\ tasks[t].pc = "post"
    /\ \E o \in testCommand(modules, tasks[t].does) :
          tasks' = [tasks EXCEPT ![t].post = o, ![t].pc = "postSettled"]
    /\ UNCHANGED <<msgs, inhUnchanged>>

InhAfterCommandTest(t) ==
    /\ tasks[t].pc = "postSettled"
    /\ tasks[t].post.state /= "pending"
    /\ LET th == afterTest(tasks[t], tasks[t].post, "run", COMMAND_BLOCKED, "p", errorListener)
       IN tasks' = [tasks EXCEPT ![t] =
                      IF th.pc = "run"
                      THEN [emit(emit(th, COMMAND_STARTED, "p", ""), COMMAND_FINISHED, "p", "")
                               EXCEPT !.pc = "done", !.result = "resolved"]
                      ELSE th]
    /\ UNCHANGED <<msgs, inhUnchanged>>

NextInh ==
    \/ InhMessage
    \/ \E t \in 1..Len(tasks) : InhTestMessage(t)
    \/ \E t \in 1..Len(tasks) : InhAfterMessageTest(t)
    \/ \E t \in 1..Len(tasks) : InhTestCommand(t)
    \/ \E t \in 1..Len(tasks) : InhAfterCommandTest(t)

SpecInh == InitInh /\ [][NextInh]_vars

\* The enabled inhibitors of a stage that do one of the things in kinds
doing(pre, does, kinds) ==
    {id \in DOMAIN modules : /\ modules[id].preMessage = pre
                             /\ modules[id].enabled
                             /\ does[id] \in kinds}

blockers(pre, does) == doing(pre, does, {"truthy", "rejectsReason"})

faulters(pre, does) == doing(pre, does, {"throws", "rejectsError"})

\* What the claim says of one test and of the handler after it
distinguished(th, o, pre, blockedEvent) ==
    /\ o.state /= "pending"
    /\ (blockers(pre, th.does) /= {} /\ faulters(pre, th.does) = {}) =>
          /\ o.state = "rejected" /\ ~o.error
          /\ \E id \in blockers(pre, th.does) : o.reason = modules[id].reason
          /\ th.pc = "done" =>
                /\ \E i \in 1..Len(th.ev) :
                      th.ev[i].e = blockedEvent /\ th.ev[i].r = o.reason
                /\ ~named(th, ERROR)
                /\ ~named(th, COMMAND_STARTED)
                /\ th.result = "resolved"
    /\ (faulters(pre, th.does) /= {} /\ blockers(pre, th.does) = {}) =>
          /\ o.state = "rejected" /\ o.error
          /\ th.pc = "done" =>
                /\ ~named(th, blockedEvent)
                /\ ~named(th, COMMAND_STARTED)
                /\ IF errorListener THEN named(th, ERROR) ELSE th.result = "rejected"

\* C26: testMessage and testCommand tell a block from a fault: when an
\* enabled inhibitor of the stage blocks (a truthy value, or a rejection with
\* something that is no Error) the test rejects with the reason of that
\* inhibitor and the handler emits a blocked event; when an inhibitor faults
\* (a throw, or a rejection with an Error) the fault reaches the error
\* channel of the handler, it is not reported as a reason and not lost; the
\* promise of the test settles in both cases.
C26_BlockIsNotFault ==
    \A t \in 1..Len(tasks) :
        /\ tasks[t].pre /= NotRun =>
              distinguished(tasks[t], tasks[t].pre, TRUE, MESSAGE_BLOCKED)
        /\ tasks[t].post /= NotRun =>
              distinguished(tasks[t], tasks[t].post, FALSE, COMMAND_BLOCKED)

(***************************************************************************)
(* The fan-out with two commands triggered by a regular expression and one *)
(* triggered by a condition, all three matching the same message.          *)
(***************************************************************************)
MaxFanMsgs == 1

ryCommand == [baseCommand("ry", <<"r", "y">>) EXCEPT !.regex = HiText]

InitFan ==
    /\ LET reg == loadAll([modules |-> EmptyMap, aliases |-> EmptyMap, prefixes |-> <<>>],
                          <<rxCommand, ryCommand, cdCommand>>, 1)
       IN /\ modules = reg.modules
          /\ aliases = reg.aliases
          /\ prefixes = reg.prefixes
    /\ aliasReplacement = FALSE
    /\ regResult = [fault |-> NoFault, id |-> "", conflict |-> ""]
    /\ handlerPrefix = [kind |-> "str", vals |-> <<<<"!">>>>]
    /\ allowMention = TRUE
    /\ parsed = NotParsed
    /\ defaultPrompt = HandlerDefaultPrompt
    /\ errorListener \in BOOLEAN
    /\ msgs = <<>>
    /\ tasks = <<>>
    /\ prompts = EmptyMap
    /\ cooldowns = EmptyMap
    /\ timers = {}
    /\ now = 0

FanMessage ==
    /\ Len(msgs) < MaxFanMsgs
    /\ Arrive("u1", "c1", HiText)

NextFan ==
    \/ FanMessage
    \/ FaultHandle
    \/ FaultBranch
    \/ FaultArguments
    \/ FaultExec
    \/ FaultJoin

SpecFan == InitFan /\ [][NextFan]_vars

\* C27: the fan-out is joined before the pipeline completes: handle for a
\* message without a directly resolved command does not resolve or fail
\* before every triggered command that it started has finished or failed.
C27_FanOutJoinedBeforeDone ==
    \A t \in 1..Len(tasks) :
        (~isBranch(tasks[t]) /\ tasks[t].pc = "done") =>
            \A b \in branches(t) : tasks[b].pc = "done"

\* C28: all commands that a message triggers, by a regular expression or by
\* a condition, run concurrently: none waits for the gates or the body of
\* another before its own gates start, so that while the fan-out of a run is
\* awaited every triggered command has been started.
C28_AllTriggeredStartTogether ==
    \A t \in 1..Len(tasks) :
        tasks[t].pc \in {"regex", "cond"} =>
            \A c \in matchedFor(t) : \E b \in branches(t) : tasks[b].cmd = c

(***************************************************************************)
(* Command.parse: the arguments of a command are processed by the          *)
(* recursion process(i), which hands the bag of the values resolved so far *)
(* to the callbacks of each argument.                                      *)
(***************************************************************************)
MaxSeqMsgs == 1

SeqIds == <<"a", "b", "c">>

\* The values a caster or a reply can give, and the value of every default
SeqValues == {"v1", "v2"}
SeqDefault == "d"

\* A command with three arguments; prompts says which of them have a prompt
seqCommand(prompts3) ==
    [id |-> "seq",
     args |-> [i \in 1..3 |-> [id |-> SeqIds[i], prompt |-> prompts3[i]]]]

\* A callback of the argument arg ran and was handed the bag processed
observe(th, arg, by) ==
    [th EXCEPT !.seen = Append(@, [arg |-> arg, by |-> by, bag |-> th.processed])]

\* processed[arg.id] = res, with nothing written
storeNothing(processed, id, res) == processed

\* processed[arg.id] = res
store(processed, id, res) == put(processed, id, res)

\* The end of a turn of process(i): the value is stored and process(i + 1)
\* is called
resolve(th, res) ==
    [th EXCEPT !.processed = store(th.processed, SeqIds[th.i], res),
               !.stored = Append(@, [arg |-> th.i, value |-> res]),
               !.i = @ + 1, !.pc = "next", !.rc = 0]

InitSeq ==
    /\ \E prompts3 \in [1..3 -> BOOLEAN] :
          modules = ("seq" :> seqCommand(prompts3))
    /\ aliases = EmptyMap
    /\ prefixes = <<>>
    /\ aliasReplacement = FALSE
    /\ regResult = [fault |-> NoFault, id |-> "", conflict |-> ""]
    /\ handlerPrefix = [kind |-> "str", vals |-> <<<<"!">>>>]
    /\ allowMention = TRUE
    /\ parsed = NotParsed
    /\ IdleRun

seqUnchanged == <<regVars, cfgVars, parsed, runCfgVars, prompts, cooldowns, timers, now>>

\* command.parse(content, message) is called: process(0)
SeqParse ==
    /\ Len(msgs) < MaxSeqMsgs
    /\ msgs' = Append(msgs, [author |-> "u1", content |-> <<"!", "s">>])
    /\ tasks' = Append(tasks, [msg |-> Len(msgs) + 1, i |-> 1, pc |-> "next", rc |-> 0,
                               processed |-> EmptyMap, seen |-> <<>>, stored |-> <<>>])
    /\ UNCHANGED seqUnchanged

\* One turn of process(i) up to its first await that waits for the user:
\* allow is asked; the caster runs on the phrase of the command; without a
\* value the argument prompts, or without a prompt takes its default
SeqProcess(t, allowed, pick, v) ==
    /\ tasks[t].pc = "next"
    /\ tasks[t].i <= Len(modules["seq"].args)
    /\ LET th == tasks[t]
           arg == modules["seq"].args[th.i]
           allowAsked == observe(th, th.i, "allow")
           casted == observe(allowAsked, th.i, "cast")
       IN tasks' = [tasks EXCEPT ![t] =
             IF ~allowed THEN [allowAsked EXCEPT !.i = @ + 1]
             ELSE IF pick = "pass" THEN resolve(casted, v)
             ELSE IF arg.prompt
             THEN [observe(casted, th.i, "prompt") EXCEPT !.pc = "await", !.rc = 1]
             ELSE resolve(observe(casted, th.i, "default"), SeqDefault)]
    /\ UNCHANGED <<msgs, seqUnchanged>>

\* The user answers the prompt: the caster runs on the reply; a value ends
\* the turn, else the retry text is built while retries remain, else the
\* command is cancelled
SeqReply(t, pick, v) ==
    /\ tasks[t].pc = "await"
    /\ LET th == tasks[t]
           casted == observe(th, th.i, "cast")
       IN tasks' = [tasks EXCEPT ![t] =
             IF pick = "pass" THEN resolve(casted, v)
             ELSE IF th.rc <= defaultPrompt.retries
             THEN [observe(casted, th.i, "prompt") EXCEPT !.rc = @ + 1]
             ELSE [casted EXCEPT !.pc = "cancelled"]]
    /\ UNCHANGED <<msgs, seqUnchanged>>

\* process(this.args.length) returns the bag
SeqDone(t) ==
    /\ tasks[t].pc = "next"
    /\ tasks[t].i = Len(modules["seq"].args) + 1
    /\ tasks' = [tasks EXCEPT ![t].pc = "done"]
    /\ UNCHANGED <<msgs, seqUnchanged>>

NextSeq ==
    \/ SeqParse
    \/ \E t \in 1..Len(tasks), allowed \in BOOLEAN, pick \in {"pass", "block"},
          v \in SeqValues : SeqProcess(t, allowed, pick, v)
    \/ \E t \in 1..Len(tasks), pick \in {"pass", "block"}, v \in SeqValues :
          SeqReply(t, pick, v)
    \/ \E t \in 1..Len(tasks) : SeqDone(t)

SpecSeq == InitSeq /\ [][NextSeq]_vars

\* The positions of the log of stored values that hold the argument k
storedAt(th, k) == {p \in 1..Len(th.stored) : th.stored[p].arg = k}

\* The caster of argument k ran before position p of the log of callbacks
beganBefore(th, k, p) ==
    \E q \in 1..(p - 1) : th.seen[q].arg = k /\ th.seen[q].by = "cast"

\* C29: the arguments are processed one at a time in the order of their
\* declaration: no callback of an argument (caster, default, prompt) runs
\* before the value of every earlier argument that was processed is in the
\* bag, and each callback is handed the values that the earlier arguments
\* resolved to.
C29_ArgumentsInDeclarationOrder ==
    \A t \in 1..Len(tasks) :
        LET th == tasks[t]
        IN /\ \A p \in 1..Len(th.seen), q \in 1..Len(th.seen) :
                 p < q => th.seen[p].arg <= th.seen[q].arg
           /\ \A p \in 1..Len(th.seen), k \in 1..3 :
                 (k < th.seen[p].arg /\ beganBefore(th, k, p)) =>
                    /\ Cardinality(storedAt(th, k)) = 1
                    /\ SeqIds[k] \in DOMAIN th.seen[p].bag
                    /\ \A s \in storedAt(th, k) :
                          th.seen[p].bag[SeqIds[k]] = th.stored[s].value
           /\ \A p \in 1..Len(th.seen) :
                 \A id \in DOMAIN th.seen[p].bag :
                    \E k \in 1..3 : k < th.seen[p].arg /\ SeqIds[k] = id

\* The default of "c" ran after "a" was cast to v1 and "b" took the reply v2
\* of its prompt, and was handed both values
C29_Witness ==
    \E t \in 1..Len(tasks) :
        \E p \in 1..Len(tasks[t].seen) :
            /\ tasks[t].seen[p] = [arg |-> 3, by |-> "default",
                                   bag |-> ("a" :> "v1") @@ ("b" :> "v2")]
            /\ \E q \in 1..(p - 1) :
                  tasks[t].seen[q].arg = 2 /\ tasks[t].seen[q].by = "prompt"
            /\ tasks[t].pc = "done"

(***************************************************************************)
(* The alias and the content that the resolver takes from a message        *)
(***************************************************************************)
\* The text that follows the matched prefix, and its first token
afterMatched == slice(parsed.text, Len(parsed.result.prefix))

\* The text after the alias token that follows the matched prefix
afterAlias ==
    IF searchNonSpace(afterMatched) = -1 THEN <<>>
    ELSE slice(afterMatched, searchNonSpace(afterMatched)
                             + Len(tokenAfterBlanks(afterMatched)))

\* C30: for a configured prefix that the message starts with, compared
\* without regard to case (a message that is the prefix alone included), the
\* resolver takes as alias the first token, delimited by blanks or newlines,
\* that follows the prefix after the blanks are skipped, and gives as content
\* the trimmed text after that token.
C30_AliasFollowsPrefix ==
    (parsed.text /= Undefined /\ ~parsed.result.isNull) =>
        /\ startsWith(toLowerCase(parsed.text), toLowerCase(parsed.result.prefix))
        /\ parsed.result.alias = tokenAfterBlanks(afterMatched)
        /\ parsed.result.content = trim(afterAlias)

(***************************************************************************)
(* Alias conflicts of register                                             *)
(***************************************************************************)
\* An alias of the command, or a name derived from one by the replacement
\* rule, is filed under another command
heldByOther(id, als) ==
    \E i \in 1..Len(als) :
        \E name \in {toLowerCase(als[i])}
                    \cup (IF aliasReplacement
                          THEN {replaceSeparators(toLowerCase(als[i]))} ELSE {}) :
            name \in DOMAIN aliases /\ aliases[name] /= id

\* C31: register(command) fails with an alias conflict only if one of the
\* aliases of the command, or a name the replacement rule derives from one,
\* is already filed under a different command; a command none of whose
\* aliases is held by another command registers, also when two of its own
\* aliases coincide after lower-casing or after the replacement.
C31_ConflictOnlyWithOtherCommand ==
    [][\A id \in CmdIds, als \in AliasLists :
          Register([aliases |-> als, prefix |-> aliasSpecPrefix(id), id |-> id]) =>
             /\ regResult'.fault = ALIAS_CONFLICT => regResult'.conflict /= id
             /\ ~heldByOther(id, als) => regResult'.fault = NoFault]_vars

(***************************************************************************)
(* One prompt per conversation and actor                                   *)
(***************************************************************************)
\* The runs whose prompt waits for a reply of the pair
outstanding(channel, user) ==
    {t \in 1..Len(tasks) : prompting(t) /\ channelOf(t) = channel /\ authorOf(t) = user}

\* C32: under every interleaving of the handling of two command messages of
\* one actor in one conversation at most one argument prompt is outstanding
\* for the pair at any time, and hasPrompt is true of the pair as long as a
\* prompt of the pair awaits a reply.
C32_OnePromptPerPair ==
    \A t \in 1..Len(tasks) :
        prompting(t) =>
            /\ Cardinality(outstanding(channelOf(t), authorOf(t))) <= 1
            /\ hasPrompt(prompts, channelOf(t), authorOf(t))

(***************************************************************************)
(* The reply to a prompt, which the client also hands to handle            *)
(***************************************************************************)
\* The runs of message m that started a command
runsOf(m) == {k \in 1..Len(tasks) : tasks[k].msg = m /\ named(tasks[k], COMMAND_STARTED)}

\* Message m was taken by a prompt and handed to handle again (breakout)
redispatched(m) == \E k \in 1..Len(tasks) : tasks[k].kind = "retry" /\ tasks[k].msg = m

\* Message m is in the hands of a prompt as the text of an argument
argumentInput(m) ==
    \E t \in 1..Len(tasks) : tasks[t].pc = "input" /\ tasks[t].input = m /\ ~breaksOut(t)

\* C33: a message that a prompt consumed as its reply starts at most one
\* command: as argument text it starts none as a message of its own, and
\* after a breakout it is dispatched once, however the completion of the
\* prompt and the top-level handling of the same message interleave.
C33_ReplyRunsAtMostOnce ==
    \A m \in 1..Len(msgs) :
        /\ redispatched(m) => Cardinality(runsOf(m)) <= 1
        /\ argumentInput(m) => runsOf(m) = {}

\* C34: when the caster (or a prompt-text function, or a send) faults while
\* a prompt is outstanding, the session of that channel and author is
\* removed all the same, so the fault does not leave the author rejected as
\* in-prompt in that channel.
C34_FaultRemovesSession ==
    [][\A t \in 1..Len(tasks), pick \in Outcomes :
          (/\ ProcessInput(t, pick)
           /\ tasks[t].err = ""
           /\ tasks'[t].err /= "") =>
              ~hasPrompt(prompts', channelOf(t), authorOf(t))]_vars

(***************************************************************************)
(* The fields of a cooldown entry                                          *)
(***************************************************************************)
\* The timers armed for the entry of (user, c)
timersOf(tms, user, c) == {tm \in tms : tm.user = user /\ tm.cmd = c}

\* C35: each live cooldown entry has 0 <= uses <= ratelimit; an invocation
\* that the cooldown blocks leaves uses, end and timer of the entry as they
\* were; and the end of the window is fixed when the entry is made: a later
\* use inside the window neither moves the end nor arms another timer.
C35_EntryFieldsBounded ==
    /\ [](\A user \in DOMAIN cooldowns : \A c \in DOMAIN cooldowns[user] :
             liveEntry(cooldowns, user, c) =>
                /\ 0 <= cooldowns[user][c].uses
                /\ cooldowns[user][c].uses <= modules[c].ratelimit
                /\ Cardinality(timersOf(timers, user, c)) = 1)
    /\ [][/\ \A t \in 1..Len(tasks) :
               (tasks[t].pc = "all" /\ ~named(tasks[t], COOLDOWN) /\ named(tasks'[t], COOLDOWN)) =>
                  /\ liveEntry(cooldowns, authorOf(t), tasks'[t].cmd)
                  /\ cooldowns' = cooldowns
                  /\ timers' = timers
          /\ \A user \in DOMAIN cooldowns : \A c \in DOMAIN cooldowns[user] :
               (liveEntry(cooldowns, user, c) /\ liveEntry(cooldowns', user, c)) =>
                  /\ cooldowns'[user][c].end = cooldowns[user][c].end
                  /\ cooldowns'[user][c].uses >= cooldowns[user][c].uses
                  /\ timersOf(timers', user, c) = timersOf(timers, user, c)]_vars

\* Ratelimit 2: the entry made by a message of time 0 was used again by a
\* message of time 1 and then blocked a third; it still ends at CoolTime
C35_Witness ==
    /\ modules["cool"].ratelimit = 2
    /\ liveEntry(cooldowns, "u1", "cool")
    /\ cooldowns["u1"]["cool"].uses = 2
    /\ cooldowns["u1"]["cool"].end = CoolTime
    /\ \E t1, t2, t3 \in 1..Len(tasks) :
          /\ \A t \in {t1, t2, t3} : authorOf(t) = "u1"
          /\ msgs[tasks[t1].msg].createdTimestamp = 0 /\ passed(tasks[t1])
          /\ msgs[tasks[t2].msg].createdTimestamp = 1 /\ passed(tasks[t2])
          /\ cooled(tasks[t3])

\* C36: the remaining time that a cooldown event reports, the end of the
\* entry minus the creation time of the blocked message, is strictly
\* positive and at most the cooldown of the command, whatever the creation
\* times of the messages and the delay before each is processed.
C36_RemainingTimeInWindow ==
    \A t \in 1..Len(tasks) :
        named(tasks[t], COOLDOWN) =>
            /\ tasks[t].diff > 0
            /\ tasks[t].diff <= modules[tasks[t].cmd].cooldown

(***************************************************************************)
(* The fan-out with a command that has both a regular expression and a     *)
(* condition, and a cooldown that lets two uses through.                   *)
(***************************************************************************)
MaxBothMsgs == 1

rcCommand ==
    [baseCommand("rc", <<"r", "c">>) EXCEPT
        !.regex = HiText, !.condition = HiText, !.cooldown = CoolTime, !.ratelimit = 2]

InitBoth ==
    /\ LET reg == loadAll([modules |-> EmptyMap, aliases |-> EmptyMap, prefixes |-> <<>>],
                          <<rcCommand, cdCommand>>, 1)
       IN /\ modules = reg.modules
          /\ aliases = reg.aliases
          /\ prefixes = reg.prefixes
    /\ aliasReplacement = FALSE
    /\ regResult = [fault |-> NoFault, id |-> "", conflict |-> ""]
    /\ handlerPrefix = [kind |-> "str", vals |-> <<<<"!">>>>]
    /\ allowMention = TRUE
    /\ parsed = NotParsed
    /\ defaultPrompt = HandlerDefaultPrompt
    /\ errorListener \in BOOLEAN
    /\ msgs = <<>>
    /\ tasks = <<>>
    /\ prompts = EmptyMap
    /\ cooldowns = EmptyMap
    /\ timers = {}
    /\ now = 0

BothMessage ==
    /\ Len(msgs) < MaxBothMsgs
    /\ Arrive("u1", "c1", HiText)

NextBoth ==
    \/ BothMessage
    \/ FaultHandle
    \/ FaultBranch
    \/ FaultArguments
    \/ FaultExec
    \/ FaultJoin

SpecBoth == InitBoth /\ [][NextBoth]_vars

\* The branches of the run t that started the command c
startedBy(t, c) ==
    {b \in branches(t) : tasks[b].cmd = c /\ named(tasks[b], COMMAND_STARTED)}

\* The messages that the author has written
writtenBy(user) == {m \in 1..Len(msgs) : msgs[m].author = user}

\* C37: in the fan-out each command is executed at most once for a message,
\* also when both its regular expression and its condition match, and the
\* uses of its cooldown entry grow by at most one for each message.
C37_OncePerMessage ==
    \A t \in 1..Len(tasks) : \A c \in DOMAIN modules :
        /\ Cardinality(startedBy(t, c)) <= 1
        /\ liveEntry(cooldowns, authorOf(t), c) =>
              cooldowns[authorOf(t)][c].uses <= Cardinality(writtenBy(authorOf(t)))

(***************************************************************************)
(* The events that close a started command                                 *)
(***************************************************************************)
\* The events named e that the run emitted for the command c
closing(th, e, c) == {i \in 1..Len(th.ev) : th.ev[i].e = e /\ th.ev[i].c = c}

\* C38: with an error listener, once the run of a message has settled every
\* command started for the message was followed by exactly one of
\* command-finished or error for the same message and command, never by
\* both and never by neither.
C38_StartedThenFinishedOrError ==
    \A t \in 1..Len(tasks) :
        LET th == tasks[t]
        IN (errorListener /\ th.pc = "done" /\ named(th, COMMAND_STARTED)) =>
              Cardinality(closing(th, COMMAND_FINISHED, th.cmd))
                 + Cardinality(closing(th, ERROR, th.cmd)) = 1

(***************************************************************************)
(* CaseControl: a list of conditions, each followed by its arguments.  An  *)
(* entry is <<"fn", what the predicate returns>> or <<"args", name>>;      *)
(* tasks holds the calls of control, each with the entry it handed to      *)
(* process(command.buildArgs(...)).                                        *)
(***************************************************************************)
MaxCaseRuns == 2
MaxConds == 2

CaseArgNames == <<"a1", "a2">>

predicate(b) == <<"fn", IF b THEN "true" ELSE "false">>
arguments(name) == <<"args", name>>

\* Control.case(...condArgs): n conditions that return truth[j], each with
\* its arguments, and a trailing entry "d" when withDefault
caseOf(n, truth, withDefault) ==
    [k \in 1..(2 * n + (IF withDefault THEN 1 ELSE 0)) |->
        IF k = 2 * n + 1 THEN arguments("d")
        ELSE IF k % 2 = 1 THEN predicate(truth[(k + 1) \div 2])
        ELSE arguments(CaseArgNames[k \div 2])]

\* entry(message, processedArgs): only a function can be called
callEntry(entry) == IF entry[1] = "fn" THEN entry[2] ELSE TypeError

\* condArgs[j] of JavaScript, j counted from 0
entryAt(condArgs, j) ==
    IF 0 <= j /\ j < Len(condArgs) THEN condArgs[j + 1] ELSE Undefined

\* CaseControl#control from the index i of its loop on
RECURSIVE caseControl(_, _)
caseControl(condArgs, i) ==
    IF i < Len(condArgs)
    THEN LET r == callEntry(condArgs[i + 1])
         IN IF r = TypeError THEN [handed |-> Undefined, err |-> TypeError]
            ELSE IF r = "true" THEN [handed |-> entryAt(condArgs, i + 1), err |-> ""]
            ELSE caseControl(condArgs, i + 2)
    ELSE [handed |-> entryAt(condArgs, Len(condArgs) - 1), err |-> ""]

InitCase ==
    /\ modules = EmptyMap
    /\ aliases = EmptyMap
    /\ prefixes = <<>>
    /\ aliasReplacement = FALSE
    /\ regResult = [fault |-> NoFault, id |-> "", conflict |-> ""]
    /\ handlerPrefix = [kind |-> "str", vals |-> <<<<"!">>>>]
    /\ allowMention = TRUE
    /\ parsed = NotParsed
    /\ IdleRun

caseUnchanged == <<regVars, cfgVars, parsed, runCfgVars, msgs, prompts, cooldowns, timers, now>>

\* The parse of a command reaches a case control
CaseReached ==
    /\ Len(tasks) < MaxCaseRuns
    /\ \E n \in 0..MaxConds, withDefault \in BOOLEAN : \E truth \in [1..n -> BOOLEAN] :
          tasks' = Append(tasks, [pc |-> "control", err |-> "",
                                  condArgs |-> caseOf(n, truth, withDefault),
                                  handed |-> Undefined])
    /\ UNCHANGED caseUnchanged

\* control({ process, command, message, processedArgs }) is called
CaseControl(t) ==
    /\ tasks[t].pc = "control"
    /\ LET r == caseControl(tasks[t].condArgs, 0)
       IN tasks' = [tasks EXCEPT ![t].pc = "done", ![t].handed = r.handed, ![t].err = r.err]
    /\ UNCHANGED caseUnchanged

CaseRun == \E t \in 1..Len(tasks) : CaseControl(t)

NextCase ==
    \/ CaseReached
    \/ CaseRun

SpecCase == InitCase /\ [][NextCase]_vars

\* The conditions of the list that hold, by their number
holding(condArgs) ==
    {j \in 1..(Len(condArgs) \div 2) : condArgs[2 * j - 1] = predicate(TRUE)}

firstHolding(condArgs) ==
    CHOOSE j \in holding(condArgs) : \A k \in holding(condArgs) : j <= k

\* C39: a case control processes the arguments of the first condition that
\* holds; when none holds it processes the trailing default entry if the
\* list has one, and otherwise the arguments of no branch, in particular
\* not those of the last condition.
C39_CaseTakesFirstOrDefault ==
    \A t \in 1..Len(tasks) :
        tasks[t].pc = "done" =>
            LET condArgs == tasks[t].condArgs
            IN /\ tasks[t].err = ""
               /\ tasks[t].handed =
                     IF holding(condArgs) /= {} THEN condArgs[2 * firstHolding(condArgs)]
                     ELSE IF Len(condArgs) % 2 = 1 THEN condArgs[Len(condArgs)]
                     ELSE Undefined

\* C40: while no prompt is outstanding the map of prompt sessions is empty:
\* removePrompt deletes the entry of a channel once its set of actors is
\* empty, so that the map never holds a channel with an empty set.
C40_NoEmptySessionSets ==
    /\ \A channel \in DOMAIN prompts : prompts[channel] /= {}
    /\ (\A t \in 1..Len(tasks) : ~prompting(t)) => prompts = EmptyMap

====
